---------------------------- MODULE Spec2Model ----------------------------
(***************************************************************************)
(* A model of the music catalog's reconciliation pipeline:                *)
(*   - Processor::scan_dirs and DatabaseThread (src/src/processor.rs),     *)
(*   - FileProcessor (src/src/file_processor.rs),                           *)
(*   - AcoustId (src/src/acoustid.rs),                                      *)
(*   - DatabaseConnection (src/src/database.rs).                            *)
(* Futures are modelled by the steps they take: a CpuPool closure or an    *)
(* HTTP request is one atomic step, and the two sides of a join are        *)
(* interleaved.  A panic inside a pool closure is re-raised in the thread  *)
(* that polls the CpuFuture, which is the thread inside core.run.          *)
(***************************************************************************)
EXTENDS Integers, Sequences, FiniteSets, TLC

(***************************************************************************)
(* Bounds of the model.                                                    *)
(***************************************************************************)
\* The clock takes the values Instant(0) .. Instant(MaxInstant).
MaxInstant == 3
\* Calls of FileProcessor::call a client makes in one behaviour.
MaxCalls == 2
\* Calls of Processor::scan_dirs in one behaviour.
MaxPasses == 1
\* Longest results list of a reply in SpecLookup.
MaxResults == 3

(***************************************************************************)
(* Program constants.                                                      *)
(***************************************************************************)
\* if difference < 1_209_600
TwoWeeks == 1209600
\* ratelimit::Builder: .capacity(3) .quantum(3)
Capacity == 3
Quantum == 3
\* Ok(Box::new(9000))
ScanDirsResult == 9000

(***************************************************************************)
(* Values.                                                                 *)
(***************************************************************************)
\* Option::None of a string-valued option (mbid, mtime).
None == "None"
\* Option<DateTime<Utc>>
NoneT == [some |-> FALSE, val |-> 0]
SomeT(t) == [some |-> TRUE, val |-> t]
\* Option<Vec<_>>
NoneSeq == [some |-> FALSE, val |-> <<>>]
SomeSeq(s) == [some |-> TRUE, val |-> s]

\* The elements of a sequence.
Range(seq) == {seq[i] : i \in 1..Len(seq)}

\* Sub-second resolution of DateTime<Utc>: the clock counts ticks.
TicksPerSecond == 2
\* DateTime::timestamp(): whole seconds since the epoch, the fraction dropped.
timestamp(t) == t \div TicksPerSecond
\* Utc.timestamp(0, 0)
Epoch == 0 * TicksPerSecond

TwoWeeksTicks == TwoWeeks * TicksPerSecond
BaseInstant == 10000000 * TicksPerSecond
\* The instants the clock visits, in order: one a few seconds after the
\* epoch (a clock that was never set); a later date, one tick past the whole
\* second; one tick less than two weeks after that date; two weeks after
\* it, to the tick; and whole multiples of two weeks from there on.
Instant(k) ==
  CASE k = 0 -> 5 * TicksPerSecond
    [] k = 1 -> BaseInstant + 1
    [] k = 2 -> BaseInstant + TwoWeeksTicks - 1
    [] k = 3 -> BaseInstant + TwoWeeksTicks
    [] OTHER -> BaseInstant + (k - 2) * TwoWeeksTicks

Paths == {"p1", "p2", "p3"}

\* config.paths and what file_scanner::scan_dir yields for each.
\* The last root holds no file.
ConfigPaths == <<"r1", "r2", "r3">>
scan_dir(root) ==
  IF root = "r1" THEN <<"p1", "p2">>
  ELSE IF root = "r2" THEN <<"p3">> ELSE <<>>

\* The id of the row of a path that is stored when the program starts.
IdOf(p) == CASE p = "p1" -> 1 [] p = "p2" -> 2 [] OTHER -> 3

\* The tags the metadata reader finds in a usable file, and an older set of
\* tags a stored row may still carry.
FileMeta ==
  [title |-> "new", artist |-> "a", album |-> "al", track |-> "tr",
   track_number |-> 2, duration |-> 200]
StaleMeta == [FileMeta EXCEPT !.title = "old", !.duration = 100]
FileMtime == "mt2"
StaleMtime == "mt1"


(***************************************************************************)
(* The lookup client (acoustid.rs).                                        *)
(***************************************************************************)
\* A variant of the comparator below that puts the later of two equal scores
\* first.
cmp_ties_flipped(a, b) ==
  IF b.score >= a.score THEN "Greater" ELSE "Less"
\* The comparator handed to results.sort_by: a result with the larger score
\* sorts first, equal scores compare Equal.
cmp(a, b) ==
  IF b.score > a.score THEN "Greater"
  ELSE IF b.score < a.score THEN "Less" ELSE "Equal"

\* slice::sort_by is a stable sort: x, which follows the elements of s in
\* the input, goes before the first element that must come after it.
RECURSIVE InsertSorted(_, _)
InsertSorted(x, s) ==
  IF s = <<>> THEN <<x>>
  ELSE IF cmp(Head(s), x) = "Greater" THEN <<x>> \o s
  ELSE <<Head(s)>> \o InsertSorted(x, Tail(s))

RECURSIVE sort_by(_)
sort_by(s) ==
  IF s = <<>> THEN <<>>
  ELSE InsertSorted(s[Len(s)], sort_by(SubSeq(s, 1, Len(s) - 1)))

\* AcoustId::handle_response on a body: [json_ok, results], results an
\* Option<Vec<AcoustIdResult>>.
handle_response(data) ==
  IF ~data.json_ok THEN [ok |-> FALSE, err |-> "JsonError", val |-> <<>>]
  ELSE IF ~data.results.some
    THEN [ok |-> FALSE, err |-> "NoFingerprintMatch", val |-> <<>>]
  ELSE LET results == sort_by(data.results.val) IN
    IF results = <<>>
      THEN [ok |-> FALSE, err |-> "NoFingerprintMatch", val |-> <<>>]
    ELSE [ok |-> TRUE, err |-> "", val |-> <<results[1]>>]

\* AcoustId::lookup on the reply to its GET: a transport failure, or the
\* body handed to handle_response.
lookup(reply) ==
  IF ~reply.transport_ok THEN [ok |-> FALSE, err |-> "HyperError", val |-> <<>>]
  ELSE handle_response(reply.body)

\* A variant of parse_file_result that reports a result without recordings
\* as an error.
parse_file_result_strict(r) ==
  IF ~r.ok THEN
    IF r.err = "NoFingerprintMatch" THEN [kind |-> "NoMatch", mbid |-> None]
    ELSE [kind |-> "Err", mbid |-> None]
  ELSE LET recordings == r.val[1].recordings IN
    IF ~recordings.some \/ recordings.val = <<>>
      THEN [kind |-> "Err", mbid |-> None]
    ELSE [kind |-> "Match", mbid |-> recordings.val[1]]
\* The closure of parse_file that follows lookup, and parse_file's or_else:
\* the first recording of the selected result, no match, or an error.
parse_file_result(r) ==
  IF ~r.ok THEN
    IF r.err = "NoFingerprintMatch" THEN [kind |-> "NoMatch", mbid |-> None]
    ELSE [kind |-> "Err", mbid |-> None]
  ELSE LET recordings == r.val[1].recordings IN
    IF ~recordings.some \/ recordings.val = <<>>
      THEN [kind |-> "NoMatch", mbid |-> None]
    ELSE [kind |-> "Match", mbid |-> recordings.val[1]]

\* fingerprint::get, as parse_file sees it: Ok, or an error that parse_file
\* turns into Ok(None) (no audio stream, an ffmpeg error), or one it passes
\* on (chromaprint).
FingerprintOutcomes == {"Ok", "NoAudioStream", "FFmpeg", "ChromaprintError"}

(***************************************************************************)
(* The store (database.rs).  library is the set of rows of the table       *)
(* library, last_checks the rows of acoustid_last_checks in insertion      *)
(* order.                                                                  *)
(***************************************************************************)
Meta(r) ==
  [title |-> r.title, artist |-> r.artist, album |-> r.album,
   track |-> r.track, track_number |-> r.track_number,
   duration |-> r.duration]

Row(id, path, meta, mbid, mtime) ==
  [id |-> id, path |-> path, title |-> meta.title, artist |-> meta.artist,
   album |-> meta.album, track |-> meta.track,
   track_number |-> meta.track_number, duration |-> meta.duration,
   mbid |-> mbid, mtime |-> mtime]

NoRow == Row(0, "", FileMeta, None, None)

RowsOfPath(lib, path) == {r \in lib : r.path = path}
FirstRow(rows) == CHOOSE r \in rows : \A q \in rows : r.id <= q.id

\* fetch_file: .first(..).expect(..) panics when the query yields no row
\* (diesel answers NotFound), and the value is always Some.
fetch_file(lib, path, conn_ok) ==
  IF ~conn_ok THEN [kind |-> "Err", val |-> NoRow]
  ELSE IF RowsOfPath(lib, path) = {} THEN [kind |-> "Panic", val |-> NoRow]
  ELSE [kind |-> "Some", val |-> FirstRow(RowsOfPath(lib, path))]

\* A variant of update_file that writes the whole candidate over the row,
\* its mbid and mtime included.
update_file_whole_row(lib, id, info) ==
  {IF r.id = id THEN Row(r.id, r.path, Meta(info), info.mbid, info.mtime)
   ELSE r : r \in lib}

\* update_file: UPDATE library SET title, artist, album, track,
\* track_number, duration WHERE id.
update_file(lib, id, info) ==
  {IF r.id = id THEN Row(r.id, r.path, Meta(info), r.mbid, r.mtime) ELSE r
     : r \in lib}

\* update_file_uuid: UPDATE library SET mbid WHERE id.
update_file_uuid(lib, id, uuid) ==
  {IF r.id = id THEN [r EXCEPT !.mbid = uuid] ELSE r : r \in lib}

\* get_acoustid_last_check: rows.get(0) of the rows of library_id, or None.
RECURSIVE get_acoustid_last_check(_, _)
get_acoustid_last_check(lcs, id) ==
  IF lcs = <<>> THEN NoneT
  ELSE IF Head(lcs).library_id = id THEN SomeT(Head(lcs).last_check)
  ELSE get_acoustid_last_check(Tail(lcs), id)

\* add_acoustid_last_check: INSERT INTO acoustid_last_checks.
add_acoustid_last_check(lcs, id, t) ==
  Append(lcs, [library_id |-> id, last_check |-> t])

\* update_acoustid_last_check: UPDATE .. SET last_check WHERE library_id.
update_acoustid_last_check(lcs, id, t) ==
  [i \in 1..Len(lcs) |->
     IF lcs[i].library_id = id THEN [lcs[i] EXCEPT !.last_check = t]
     ELSE lcs[i]]

\* The id the store assigns to a new row.
NextId(lib) ==
  IF lib = {} THEN 1
  ELSE 1 + (CHOOSE m \in {r.id : r \in lib} : \A r \in lib : r.id <= m)

\* insert_file: db.get() fails with an io::Error; get_result(..).expect(..)
\* panics when the INSERT fails; otherwise the new row is returned.
insert_file(lib, info, conn_ok, query_ok) ==
  IF ~conn_ok THEN [kind |-> "Err", lib |-> lib, val |-> NoRow]
  ELSE IF ~query_ok THEN [kind |-> "Panic", lib |-> lib, val |-> NoRow]
  ELSE LET row == Row(NextId(lib), info.path, Meta(info), None, info.mtime)
       IN [kind |-> "Ok", lib |-> lib \cup {row}, val |-> row]

\* update_file as a call: db.get(), prepare_cached and execute each fail
\* with an io::Error.
update_file_call(lib, id, info, conn_ok, query_ok) ==
  IF ~conn_ok \/ ~query_ok THEN [kind |-> "Err", lib |-> lib]
  ELSE [kind |-> "Ok", lib |-> update_file(lib, id, info)]

\* The foreign key of acoustid_last_checks.library_id to library.id, as the
\* store enforces it: a last check is inserted for a stored entry only, and
\* an entry that a last check refers to is not deleted.
fk_allows_insert(lib, id) == \E r \in lib : r.id = id
\* A variant of fk_allows_delete for a store without the foreign key.
fk_unenforced(lcs, id) == TRUE
fk_allows_delete(lcs, id) == \A i \in 1..Len(lcs) : lcs[i].library_id # id

\* A variant of delete_file that deletes nothing.
delete_file_none(lib, id) == lib
\* delete_file: DELETE FROM library WHERE id.
delete_file(lib, id) == {r \in lib : r.id # id}

\* delete_acoustid_last_check: DELETE FROM acoustid_last_checks WHERE
\* library_id.
RECURSIVE delete_acoustid_last_check(_, _)
delete_acoustid_last_check(lcs, id) ==
  IF lcs = <<>> THEN <<>>
  ELSE IF Head(lcs).library_id = id
    THEN delete_acoustid_last_check(Tail(lcs), id)
  ELSE <<Head(lcs)>> \o delete_acoustid_last_check(Tail(lcs), id)

\* path_iter: SELECT id, path FROM library, the rows handed to the callback
\* one by one; the model takes them by ascending id.
RECURSIVE path_iter(_)
path_iter(lib) ==
  IF lib = {} THEN <<>>
  ELSE LET r == FirstRow(lib)
       IN <<[id |-> r.id, path |-> r.path]>> \o path_iter(lib \ {r})

\* Uuid::to_string: the hyphenated text of the identifier, a value other
\* than the identifier.
to_string(uuid) == "text-" \o uuid

\* MediaFileInfo::to_document: mbid: self.mbid.map(|x| x.to_string())
to_document(info) ==
  [id |-> info.id, path |-> info.path, title |-> info.title,
   artist |-> info.artist, album |-> info.album, track |-> info.track,
   track_number |-> info.track_number, duration |-> info.duration,
   mbid |-> IF info.mbid = None THEN None ELSE to_string(info.mbid)]

\* A variant of insert_document that adds the document and replaces none.
insert_document_added(idx, doc) == idx \cup {doc}
\* ElasticSearch::insert_document: document_index with the document's id
\* replaces the document of that id.
insert_document(idx, doc) == {d \in idx : d.id # doc.id} \cup {doc}

(***************************************************************************)
(* State.                                                                  *)
(***************************************************************************)
VARIABLES
  library,      \* rows of table library
  last_checks,  \* rows of table acoustid_last_checks
  index,        \* documents of the search index
  disk,         \* disk[p]: whether the metadata reader finds p usable
  clock,        \* Utc::now() is Instant(clock)
  tokens,       \* tokens the rate limiter holds
  mode,         \* "scan": Processor::scan_dirs drives DatabaseThread;
                \* "fp": a client calls FileProcessor::call;
                \* "lookup": AcoustId::lookup on its own (SpecLookup)
  scan,         \* the position of scan_dirs
  calls,        \* calls of FileProcessor::call made so far
  task,         \* the reconciliation in flight, or the last one finished
  attempted,    \* paths the stream of scan_dirs has pulled in this pass
  resp,         \* the last reply of the identification service
  picked,       \* SpecLookup: what lookup made of resp
  identified,   \* SpecLookup: what parse_file made of picked
  workers,      \* SpecLimiter: where each pool worker is in ratelimit.wait()
  exists,       \* SpecPrune: the stored paths whose file is on disk
  sweep,        \* SpecPrune: the position of the pruning sweep
  proc,         \* the Processor: how Processor::new went
  gw,           \* SpecGateway: the last call of the gateway by a client
  pool,         \* SpecPool: the CpuPool's queue and threads
  rate          \* SpecRate: the time and the lookup requests sent so far

\* The variables only the specifications other than Spec change.
more_vars == <<proc, gw, pool, rate>>
side_vars == <<identified, workers, exists, sweep, more_vars>>

vars ==
  <<library, last_checks, index, disk, clock, tokens, mode, scan, calls,
    task, attempted, resp, picked, identified, workers, exists, sweep,
    proc, gw, pool, rate>>

\* Bounds of SpecLimiter and SpecPrune: pool workers that call parse_file at
\* the same time, and pruning sweeps in one behaviour.
MaxWorkers == 4
MaxSweeps == 2
Workers == 1..MaxWorkers

NoOutcome == [kind |-> "none", mbid |-> None]
IdleWorkers == [w \in Workers |-> "idle"]
IdleSweep ==
  [state |-> "idle", todo |-> <<>>, step |-> "next", passes |-> 0,
   deleted |-> {}, count |-> 0]

\* A Processor that Processor::new returned: the key was configured and the
\* index was found to exist.
ConstructedProc ==
  [state |-> "constructed", has_key |-> TRUE, err |-> "none",
   requests |-> <<"indices_exists">>]
\* calls: calls made so far; op, path: the last call; failed: whether the
\* store failed in it; kind: what its future resolved to; issued: how many
\* times it sent its statement.
IdleGw ==
  [calls |-> 0, op |-> "none", path |-> "", failed |-> FALSE,
   kind |-> "none", issued |-> 0]
\* size: the pool's threads; queue: closures spawned and not yet taken by a
\* thread; running: closures a thread is in; spawned, done: the closures of
\* the file in the pipeline; files: files the pipeline is done with.
IdlePool ==
  [size |-> 1, queue |-> <<>>, running |-> {}, spawned |-> {}, done |-> {},
   files |-> 0]
\* now: the time in ticks since the limiter's thread started; sends: the
\* times at which lookup requests were sent.
IdleRate == [now |-> 0, sends |-> <<>>]

\* The values of more_vars in a specification that leaves them alone.
MoreInit ==
  /\ proc = ConstructedProc
  /\ gw = IdleGw
  /\ pool = IdlePool
  /\ rate = IdleRate

\* The values of side_vars in a specification that leaves them alone.
SideInit ==
  /\ identified = NoOutcome
  /\ workers = IdleWorkers
  /\ exists = Paths
  /\ sweep = IdleSweep
  /\ MoreInit

\* What the metadata reader returns for a usable file: the candidate carries
\* no id and no mbid.
ReadFileMbid == None
read_file(path) == Row(0, path, FileMeta, ReadFileMbid, FileMtime)
\* NewMediaFileInfo::get_mtime
get_mtime(path) == FileMtime

IdleTask ==
  [engine |-> "", path |-> "", pc |-> "idle", pre |-> FALSE,
   pre_mbid |-> None,
   info |-> NoRow, db_info |-> NoRow, ret |-> NoRow,
   last_check |-> NoneT, now |-> 0, decided |-> "none",
   up |-> "none", glc |-> "none", lc |-> "none", ac |-> "none",
   mbid |-> None, fp |-> "none", lookups |-> 0, acquired |-> 0,
   wrote |-> {}, result |-> "none"]

NewTask(engine, path, info) ==
  [IdleTask EXCEPT !.engine = engine, !.path = path, !.pc = "fetch",
                   !.pre = (RowsOfPath(library, path) # {}),
                   !.pre_mbid = IF RowsOfPath(library, path) = {} THEN None
                                ELSE FirstRow(RowsOfPath(library, path)).mbid,
                   !.info = info]

\* A future that resolved: Ok(ret), an Err, or a panic re-raised by poll.
Done(t, result) == [t EXCEPT !.pc = "done", !.result = result]

\* Join: ready once both sides are.
Finish(t) ==
  IF t.lc = "ok" /\ t.ac = "ok" THEN Done(t, "Ok") ELSE t

(***************************************************************************)
(* The initial state: a store some earlier run left, a clock, the disk.    *)
(***************************************************************************)
RowChoices(p) ==
  IF p = "p1"
    THEN {Row(IdOf(p), p, m, b, t) :
            m \in {FileMeta, StaleMeta}, b \in {None, "m1"},
            t \in {FileMtime, StaleMtime}}
    ELSE {Row(IdOf(p), p, FileMeta, "m1", FileMtime)}

RowSetChoices(p) == {{}} \cup {{r} : r \in RowChoices(p)}

\* The last check of a stored row: none, or one made at an instant up to now.
LastCheckChoices(rows, p, c) ==
  IF rows = {} THEN {<<>>}
  ELSE IF p = "p1"
    THEN {<<>>} \cup
         {<<[library_id |-> IdOf(p), last_check |-> Instant(k)]>> : k \in 0..c}
    ELSE {<<[library_id |-> IdOf(p), last_check |-> Instant(c)]>>}

NoReply ==
  [transport_ok |-> FALSE, body |-> [json_ok |-> FALSE, results |-> NoneSeq]]
NoPick == [ok |-> FALSE, err |-> "none", val |-> <<>>]

\* upserts: the documents handed to search.insert_document in this pass;
\* ret: what scan_dirs returned.
InitScan ==
  [state |-> "idle", root |-> 1, pos |-> 1, stage |-> "pull", passes |-> 0,
   upserts |-> <<>>, ret |-> NoneT]

Init ==
  /\ mode \in {"scan", "fp"}
  /\ clock \in 0..1
  /\ \E r1 \in RowSetChoices("p1"), r2 \in {{r} : r \in RowChoices("p2")},
        r3 \in {{r} : r \in RowChoices("p3")} :
       /\ library = r1 \cup r2 \cup r3
       /\ \E l1 \in LastCheckChoices(r1, "p1", clock),
             l2 \in LastCheckChoices(r2, "p2", clock),
             l3 \in LastCheckChoices(r3, "p3", clock) :
            last_checks = l1 \o l2 \o l3
  /\ index = {}
  /\ disk \in {[p \in Paths |-> IF p = "p1" THEN u ELSE TRUE] : u \in BOOLEAN}
  /\ tokens = Capacity
  /\ scan = InitScan
  /\ calls = 0
  /\ task = IdleTask
  /\ attempted = <<>>
  /\ resp = NoReply
  /\ picked = NoPick
  /\ SideInit

(***************************************************************************)
(* The clock and the rate limiter's thread.                                *)
(***************************************************************************)
Tick ==
  /\ clock < MaxInstant
  /\ clock' = clock + 1
  /\ UNCHANGED <<side_vars, library, last_checks, index, disk, tokens, mode,
                 scan, calls, task, attempted, resp, picked>>

\* A variant of LimiterRun whose thread has stalled: it adds no token.
LimiterRun_Stalled ==
  /\ tokens < Capacity
  /\ UNCHANGED vars

\* limiter.run(), on the thread AcoustId::new spawns: every interval it adds
\* quantum tokens, up to capacity.
LimiterRun ==
  /\ tokens < Capacity
  /\ tokens' = IF tokens + Quantum > Capacity THEN Capacity
               ELSE tokens + Quantum
  /\ UNCHANGED <<side_vars, library, last_checks, index, disk, clock, mode,
                 scan, calls, task, attempted, resp, picked>>

(***************************************************************************)
(* Processor::scan_dirs (processor.rs).  The stream's combinators handle   *)
(* one file at a time: and_then polls the next file only when the future   *)
(* of the one before has resolved.                                         *)
(***************************************************************************)
Files == scan_dir(ConfigPaths[scan.root])

\* pub fn scan_dirs is entered.
ScanDirs ==
  /\ mode = "scan"
  /\ scan.state \in {"idle", "finished"}
  /\ scan.passes < MaxPasses
  /\ scan' = [scan EXCEPT !.state = "running", !.root = 1, !.pos = 1,
                          !.stage = "pull", !.upserts = <<>>,
                          !.ret = NoneT]
  /\ attempted' = <<>>
  /\ UNCHANGED <<side_vars, library, last_checks, index, disk, clock, tokens,
                 mode, calls, task, resp, picked>>

\* The stream yields the next file, read_file runs on the pool, filter_map
\* drops a None, and DatabaseThread::call is entered with the WorkUnit.
ScanReadFile ==
  /\ scan.state = "running" /\ scan.stage = "pull"
  /\ scan.pos <= Len(Files)
  /\ LET file == Files[scan.pos] IN
       /\ attempted' = Append(attempted, file)
       /\ IF disk[file]
            THEN /\ task' = NewTask("DatabaseThread", file, read_file(file))
                 /\ scan' = [scan EXCEPT !.stage = "reconcile"]
            ELSE /\ scan' = [scan EXCEPT !.pos = @ + 1]
                 /\ UNCHANGED task
  /\ UNCHANGED <<side_vars, library, last_checks, index, disk, clock, tokens,
                 mode, calls, resp, picked>>

\* The stream of a root is exhausted: for_each resolves, core.run returns
\* Ok, and the loop goes to the next root or scan_dirs returns
\* Ok(Box::new(9000)).
ScanRootDone ==
  /\ scan.state = "running" /\ scan.stage = "pull"
  /\ scan.pos > Len(Files)
  /\ scan' = IF scan.root < Len(ConfigPaths)
               THEN [scan EXCEPT !.root = @ + 1, !.pos = 1]
               ELSE [scan EXCEPT !.state = "finished", !.passes = @ + 1,
                                 !.ret = SomeT(ScanDirsResult)]
  /\ UNCHANGED <<side_vars, library, last_checks, index, disk, clock, tokens,
                 mode, calls, task, attempted, resp, picked>>

\* A variant of ScanInsertDocument that goes to the next file without a
\* request to the index.
ScanInsertDocument_Skipped ==
  /\ scan.state = "running" /\ scan.stage = "reconcile"
  /\ task.pc = "done" /\ task.result = "Ok"
  /\ scan' = [scan EXCEPT !.stage = "pull", !.pos = @ + 1]
  /\ UNCHANGED <<side_vars, library, last_checks, index, disk, clock,
                 tokens, mode, calls, task, attempted, resp, picked>>

\* DatabaseThread::call resolved Ok(info): search.insert_document(doc).  An
\* error of it becomes the stream's error.
ScanInsertDocument ==
  /\ scan.state = "running" /\ scan.stage = "reconcile"
  /\ task.pc = "done" /\ task.result = "Ok"
  /\ \E elastic_ok \in BOOLEAN :
       LET doc == to_document(task.ret) IN
         IF elastic_ok
           THEN /\ index' = insert_document(index, doc)
                /\ scan' = [scan EXCEPT !.stage = "pull", !.pos = @ + 1,
                                        !.upserts = Append(@, doc)]
           ELSE /\ scan' = [scan EXCEPT !.state = "panicked",
                                        !.upserts = Append(@, doc)]
                /\ UNCHANGED index
  /\ UNCHANGED <<side_vars, library, last_checks, disk, clock, tokens, mode,
                 calls, task, attempted, resp, picked>>

\* A future of the pipeline resolved to an error: for_each resolves to it,
\* map_err logs it, and core.run(handler).unwrap() panics.  A panic of a
\* pool closure reaches the same thread through CpuFuture::poll.
ScanPipelineError ==
  /\ scan.state = "running" /\ scan.stage = "reconcile"
  /\ task.pc = "done" /\ task.result \in {"Err", "Panic"}
  /\ scan' = [scan EXCEPT !.state = "panicked"]
  /\ UNCHANGED <<side_vars, library, last_checks, index, disk, clock, tokens,
                 mode, calls, task, attempted, resp, picked>>

(***************************************************************************)
(* FileProcessor::call, entered by a client (file_processor.rs).           *)
(***************************************************************************)
FileProcessorCall(path) ==
  /\ mode \in {"fp", "race"}
  /\ task.pc \in {"idle", "done"} /\ task.result # "Panic"
  /\ calls < MaxCalls
  /\ calls' = calls + 1
  /\ task' = NewTask("FileProcessor", path, NoRow)
  /\ UNCHANGED <<side_vars, library, last_checks, index, disk, clock, tokens,
                 mode, scan, attempted, resp, picked>>

(***************************************************************************)
(* The re-check decision shared by FileProcessor::handle_acoustid and      *)
(* DatabaseThread::update_path_entry.                                      *)
(***************************************************************************)
\* now.timestamp() - last_check.unwrap_or(Utc.timestamp(0, 0)).timestamp()
difference(now, last_check) ==
  timestamp(now) - timestamp(IF last_check.some THEN last_check.val ELSE Epoch)

\* Two variants of the test below: one that re-checks a second early, one
\* that re-checks a second late.
within_two_weeks_early(now, last_check) ==
  difference(now, last_check) < TwoWeeks - 1
within_two_weeks_late(now, last_check) ==
  difference(now, last_check) < TwoWeeks + 1
\* if difference < 1_209_600 { return .. }
within_two_weeks(now, last_check) ==
  difference(now, last_check) < TwoWeeks

\* The closure that runs once the last check is known: return the entry, or
\* start parse_file and the write of the last check and join them.
recheck(t, last_check) ==
  LET now == Instant(clock)
      t1 == [t EXCEPT !.last_check = last_check, !.now = now]
  IN IF within_two_weeks(now, last_check)
       THEN Done([t1 EXCEPT !.decided = "fresh"], "Ok")
       ELSE [t1 EXCEPT !.decided = "stale", !.pc = "join",
                       !.lc = "pending", !.ac = "wait"]

(***************************************************************************)
(* FileProcessor (file_processor.rs).                                      *)
(***************************************************************************)
check_if_update_needed(t, v) ==
  LET t1 == [t EXCEPT !.db_info = v, !.ret = v]
  IN IF get_mtime(t.path) # v.mtime THEN [t1 EXCEPT !.pc = "read"]
     ELSE IF v.mbid = None THEN [t1 EXCEPT !.pc = "get_last_check"]
     ELSE Done(t1, "Ok")

\* update_path_entry up to the point where update_file is in flight or was
\* not needed.
fp_update_path_entry(t) ==
  IF Meta(t.info) # Meta(t.db_info) THEN [t EXCEPT !.pc = "update"]
  ELSE IF t.db_info.mbid # None THEN Done(t, "Ok")
  ELSE [t EXCEPT !.pc = "get_last_check"]

(***************************************************************************)
(* DatabaseThread (processor.rs).                                          *)
(***************************************************************************)
\* update_path_entry up to the first join: update_file is in flight when a
\* field differs, and get_acoustid_last_check unless the WorkUnit's info
\* carries an mbid.
dt_update_path_entry(t, v) ==
  LET needs_update == Meta(t.info) # Meta(v)
      t1 == [t EXCEPT !.db_info = v, !.ret = v,
                      !.up = IF needs_update THEN "update" ELSE "ok"]
  IN IF t.info.mbid # None
       THEN IF needs_update THEN [t1 EXCEPT !.pc = "dt_join"]
            ELSE Done(t1, "Ok")
       ELSE [t1 EXCEPT !.pc = "dt_join", !.glc = "pending"]

(***************************************************************************)
(* The steps of a reconciliation.                                          *)
(***************************************************************************)
\* call: fetch_file(path), then the branch on what it yields.  fetch_file
\* yields no None (see fetch_file), so insert_path_entry is never entered.
Fetch ==
  /\ task.pc = "fetch"
  /\ \E conn_ok \in BOOLEAN :
       LET res == fetch_file(library, task.path, conn_ok) IN
         task' = CASE res.kind = "Err" -> Done(task, "Err")
                   [] res.kind = "Panic" -> Done(task, "Panic")
                   [] OTHER ->
                        IF task.engine = "FileProcessor"
                          THEN check_if_update_needed(task, res.val)
                          ELSE dt_update_path_entry(task, res.val)
  /\ UNCHANGED <<side_vars, library, last_checks, index, disk, clock, tokens,
                 mode, scan, calls, attempted, resp, picked>>

\* A variant of FP_ReadFileInfo in which a file the reader rejects ends the
\* caller.
FP_ReadFileInfo_Panics ==
  /\ task.pc = "read"
  /\ task' = IF disk[task.path]
               THEN fp_update_path_entry(
                      [task EXCEPT !.info = read_file(task.path)])
               ELSE Done(task, "Panic")
  /\ UNCHANGED <<side_vars, library, last_checks, index, disk, clock, tokens,
                 mode, scan, calls, attempted, resp, picked>>

\* read_file_info on the pool, then update_path_entry.
FP_ReadFileInfo ==
  /\ task.pc = "read"
  /\ task' = IF disk[task.path]
               THEN fp_update_path_entry(
                      [task EXCEPT !.info = read_file(task.path)])
               ELSE Done(task, "Err")
  /\ UNCHANGED <<side_vars, library, last_checks, index, disk, clock, tokens,
                 mode, scan, calls, attempted, resp, picked>>

\* conn.update_file(id, info) resolves; the entry with an mbid is returned,
\* the one without goes on to handle_acoustid.
FP_UpdateFile ==
  /\ task.pc = "update"
  /\ \E db_ok \in BOOLEAN :
       IF db_ok
         THEN LET lib == update_file(library, task.db_info.id, task.info)
                  row == FirstRow({r \in lib : r.id = task.db_info.id})
                  t1 == [task EXCEPT !.ret = row, !.db_info = row,
                                     !.wrote = @ \cup {"update_file"}]
              IN /\ library' = lib
                 /\ task' = IF task.db_info.mbid # None THEN Done(t1, "Ok")
                            ELSE [t1 EXCEPT !.pc = "get_last_check"]
         ELSE /\ task' = Done(task, "Err")
              /\ UNCHANGED library
  /\ UNCHANGED <<side_vars, last_checks, index, disk, clock, tokens, mode,
                 scan, calls, attempted, resp, picked>>

\* handle_acoustid: get_acoustid_last_check resolves and the closure runs.
FP_GetLastCheck ==
  /\ task.pc = "get_last_check"
  /\ \E db_ok \in BOOLEAN :
       task' = IF db_ok
                 THEN recheck(task, get_acoustid_last_check(
                                      last_checks, task.db_info.id))
                 ELSE Done(task, "Err")
  /\ UNCHANGED <<side_vars, library, last_checks, index, disk, clock, tokens,
                 mode, scan, calls, attempted, resp, picked>>

\* update_file resolves; fetch_file follows it.
DT_UpdateFile ==
  /\ task.pc = "dt_join" /\ task.up = "update"
  /\ \E db_ok \in BOOLEAN :
       IF db_ok
         THEN /\ library' = update_file(library, task.db_info.id, task.info)
              /\ task' = [task EXCEPT !.up = "refetch",
                                      !.wrote = @ \cup {"update_file"}]
         ELSE /\ task' = Done(task, "Err")
              /\ UNCHANGED library
  /\ UNCHANGED <<side_vars, last_checks, index, disk, clock, tokens, mode,
                 scan, calls, attempted, resp, picked>>

\* The fetch_file after update_file, and info.unwrap().
DT_Refetch ==
  /\ task.pc = "dt_join" /\ task.up = "refetch"
  /\ \E conn_ok \in BOOLEAN :
       LET res == fetch_file(library, task.path, conn_ok) IN
         task' = CASE res.kind = "Err" -> Done(task, "Err")
                   [] res.kind = "Panic" -> Done(task, "Panic")
                   [] OTHER ->
                        LET t1 == [task EXCEPT !.ret = res.val, !.up = "ok"]
                        IN IF task.glc = "none" THEN Done(t1, "Ok") ELSE t1
  /\ UNCHANGED <<side_vars, library, last_checks, index, disk, clock, tokens,
                 mode, scan, calls, attempted, resp, picked>>

\* get_acoustid_last_check(id), the other side of the first join.
DT_GetLastCheck ==
  /\ task.pc = "dt_join" /\ task.glc = "pending"
  /\ \E db_ok \in BOOLEAN :
       task' = IF db_ok
                 THEN [task EXCEPT !.glc = "ok",
                         !.last_check = get_acoustid_last_check(
                                          last_checks, task.db_info.id)]
                 ELSE Done(task, "Err")
  /\ UNCHANGED <<side_vars, library, last_checks, index, disk, clock, tokens,
                 mode, scan, calls, attempted, resp, picked>>

\* Both sides of the first join are ready: the closure of joined.and_then.
DT_Joined ==
  /\ task.pc = "dt_join" /\ task.up = "ok" /\ task.glc = "ok"
  /\ task' = recheck(task, task.last_check)
  /\ UNCHANGED <<side_vars, library, last_checks, index, disk, clock, tokens,
                 mode, scan, calls, attempted, resp, picked>>

(***************************************************************************)
(* The second join: the write of the last check on one side, parse_file    *)
(* and update_file_uuid on the other.  Both sides start when the join is   *)
(* built (spawn_fn starts its closure at once), and the join resolves to   *)
(* the first error of either side.                                         *)
(***************************************************************************)
\* A variant of LastCheckWrite whose statement also resets the entry's mbid.
LastCheckWrite_ResetsMbid ==
  /\ task.pc = "join" /\ task.lc = "pending"
  /\ \E db_ok \in BOOLEAN :
       IF db_ok
         THEN /\ last_checks' =
                   IF task.last_check.some
                     THEN update_acoustid_last_check(
                            last_checks, task.db_info.id, task.now)
                     ELSE add_acoustid_last_check(
                            last_checks, task.db_info.id, task.now)
              /\ library' = update_file_uuid(library, task.db_info.id, None)
              /\ task' = Finish([task EXCEPT !.lc = "ok",
                                   !.wrote = @ \cup {"last_check"}])
         ELSE /\ task' = Done(task, "Err")
              /\ UNCHANGED <<library, last_checks>>
  /\ UNCHANGED <<side_vars, index, disk, clock, tokens, mode, scan,
                 calls, attempted, resp, picked>>

\* A variant of LastCheckWrite that inserts a row whether or not one was
\* found.
LastCheckWrite_AlwaysAdd ==
  /\ task.pc = "join" /\ task.lc = "pending"
  /\ \E db_ok \in BOOLEAN :
       IF db_ok
         THEN /\ last_checks' = add_acoustid_last_check(
                                  last_checks, task.db_info.id, task.now)
              /\ task' = Finish([task EXCEPT !.lc = "ok",
                                   !.wrote = @ \cup {"last_check"}])
         ELSE /\ task' = Done(task, "Err")
              /\ UNCHANGED last_checks
  /\ UNCHANGED <<side_vars, library, index, disk, clock, tokens, mode, scan,
                 calls, attempted, resp, picked>>

\* update_acoustid_last_check(id, now) or add_acoustid_last_check(id, now);
\* the store refuses the INSERT for an entry that is not stored.
LastCheckWrite ==
  /\ task.pc = "join" /\ task.lc = "pending"
  /\ \E db_ok \in BOOLEAN :
       IF /\ db_ok
          /\ task.last_check.some \/ fk_allows_insert(library, task.db_info.id)
         THEN /\ last_checks' =
                   IF task.last_check.some
                     THEN update_acoustid_last_check(
                            last_checks, task.db_info.id, task.now)
                     ELSE add_acoustid_last_check(
                            last_checks, task.db_info.id, task.now)
              /\ task' = Finish([task EXCEPT !.lc = "ok",
                                   !.wrote = @ \cup {"last_check"}])
         ELSE /\ task' = Done(task, "Err")
              /\ UNCHANGED last_checks
  /\ UNCHANGED <<side_vars, library, index, disk, clock, tokens, mode, scan,
                 calls, attempted, resp, picked>>

\* A variant of RatelimitWait that goes on without a token.
RatelimitWait_NoToken ==
  /\ task.pc = "join" /\ task.ac = "wait"
  /\ task' = [task EXCEPT !.ac = "fingerprint"]
  /\ UNCHANGED <<side_vars, library, last_checks, index, disk, clock, tokens,
                 mode, scan, calls, attempted, resp, picked>>

\* parse_file's pool closure: ratelimit.wait() returns with a token.
RatelimitWait ==
  /\ task.pc = "join" /\ task.ac = "wait"
  /\ tokens > 0
  /\ tokens' = tokens - 1
  /\ task' = [task EXCEPT !.ac = "fingerprint", !.acquired = @ + 1]
  /\ UNCHANGED <<side_vars, library, last_checks, index, disk, clock, mode,
                 scan, calls, attempted, resp, picked>>

\* parse_file's pool closure: fingerprint::get(&path), and the or_else for
\* its errors.
Fingerprint ==
  /\ task.pc = "join" /\ task.ac = "fingerprint"
  /\ \E outcome \in FingerprintOutcomes :
       task' = CASE outcome = "Ok" ->
                      [task EXCEPT !.fp = outcome, !.ac = "lookup"]
                 [] outcome \in {"NoAudioStream", "FFmpeg"} ->
                      Finish([task EXCEPT !.fp = outcome, !.ac = "ok"])
                 [] OTHER -> Done([task EXCEPT !.fp = outcome], "Err")
  /\ UNCHANGED <<side_vars, library, last_checks, index, disk, clock, tokens,
                 mode, scan, calls, attempted, resp, picked>>

Result(id, score, recordings) ==
  [id |-> id, score |-> score, recordings |-> recordings]
Body(results) == [json_ok |-> TRUE, results |-> results]
Reply(body) == [transport_ok |-> TRUE, body |-> body]

\* Replies of the identification service to one GET.
ScanReplies ==
  { NoReply,
    Reply([json_ok |-> FALSE, results |-> NoneSeq]),
    Reply(Body(NoneSeq)),
    Reply(Body(SomeSeq(<<>>))),
    Reply(Body(SomeSeq(<<Result(1, 95, NoneSeq)>>))),
    Reply(Body(SomeSeq(<<Result(1, 95, SomeSeq(<<>>))>>))),
    Reply(Body(SomeSeq(<<Result(1, 95, SomeSeq(<<"m1", "m2">>))>>))),
    Reply(Body(SomeSeq(<<Result(1, 70, SomeSeq(<<"m1">>)),
                         Result(2, 95, SomeSeq(<<"m2", "m1">>))>>))) }

\* AcoustId::lookup: the GET and what parse_file makes of the reply.
Lookup ==
  /\ task.pc = "join" /\ task.ac = "lookup"
  /\ \E reply \in ScanReplies :
       LET r == parse_file_result(lookup(reply))
           t1 == [task EXCEPT !.lookups = @ + 1]
       IN /\ resp' = reply
          /\ task' = CASE r.kind = "Match" ->
                            [t1 EXCEPT !.ac = "stamp", !.mbid = r.mbid]
                       [] r.kind = "NoMatch" -> Finish([t1 EXCEPT !.ac = "ok"])
                       [] OTHER -> Done(t1, "Err")
  /\ UNCHANGED <<side_vars, library, last_checks, index, disk, clock, tokens,
                 mode, scan, calls, attempted, picked>>

\* A variant of UpdateFileUuid that runs its query although no connection
\* was obtained.
UpdateFileUuid_QueryOnFailure ==
  /\ task.pc = "join" /\ task.ac = "stamp"
  /\ library' = update_file_uuid(library, task.db_info.id, task.mbid)
  /\ \E db_ok \in BOOLEAN :
       task' = IF db_ok
                 THEN Finish([task EXCEPT !.ac = "ok",
                                !.wrote = @ \cup {"update_file_uuid"}])
                 ELSE Done(task, "Err")
  /\ UNCHANGED <<side_vars, last_checks, index, disk, clock, tokens, mode,
                 scan, calls, attempted, resp, picked>>

\* conn.update_file_uuid(id, mbid)
UpdateFileUuid ==
  /\ task.pc = "join" /\ task.ac = "stamp"
  /\ \E db_ok \in BOOLEAN :
       IF db_ok
         THEN /\ library' =
                   update_file_uuid(library, task.db_info.id, task.mbid)
              /\ task' = Finish([task EXCEPT !.ac = "ok",
                                   !.wrote = @ \cup {"update_file_uuid"}])
         ELSE /\ task' = Done(task, "Err")
              /\ UNCHANGED library
  /\ UNCHANGED <<side_vars, last_checks, index, disk, clock, tokens, mode,
                 scan, calls, attempted, resp, picked>>

Next ==
  \/ Tick
  \/ LimiterRun
  \/ ScanDirs
  \/ ScanReadFile
  \/ ScanRootDone
  \/ ScanInsertDocument
  \/ ScanPipelineError
  \/ \E path \in Paths : FileProcessorCall(path)
  \/ Fetch
  \/ FP_ReadFileInfo
  \/ FP_UpdateFile
  \/ FP_GetLastCheck
  \/ DT_UpdateFile
  \/ DT_Refetch
  \/ DT_GetLastCheck
  \/ DT_Joined
  \/ LastCheckWrite
  \/ RatelimitWait
  \/ Fingerprint
  \/ Lookup
  \/ UpdateFileUuid

Spec == Init /\ [][Next]_vars

(***************************************************************************)
(* AcoustId::lookup on its own: a reply is drawn, lookup is applied.       *)
(***************************************************************************)
Scores == {10, 50, 90}
RecordingChoices == {NoneSeq, SomeSeq(<<>>), SomeSeq(<<"m1">>)}

\* Results lists of n entries; the id of an entry is its place in the reply.
ResultLists(n) ==
  {[i \in 1..n |-> Result(i, sc[i], rc[i])] :
     sc \in [1..n -> Scores], rc \in [1..n -> RecordingChoices]}

LookupReplies ==
  {NoReply, Reply([json_ok |-> FALSE, results |-> NoneSeq]),
   Reply(Body(NoneSeq))}
  \cup {Reply(Body(SomeSeq(l))) :
          l \in UNION {ResultLists(n) : n \in 0..MaxResults}}

InitLookup ==
  /\ mode = "lookup"
  /\ clock = 0
  /\ library = {}
  /\ last_checks = <<>>
  /\ index = {}
  /\ disk = [p \in Paths |-> TRUE]
  /\ tokens = Capacity
  /\ scan = InitScan
  /\ calls = 0
  /\ task = IdleTask
  /\ attempted = <<>>
  /\ resp \in LookupReplies
  /\ picked = NoPick
  /\ SideInit

LookupRun ==
  /\ mode = "lookup"
  /\ picked = NoPick
  /\ picked' = lookup(resp)
  /\ UNCHANGED <<side_vars, library, last_checks, index, disk, clock, tokens,
                 mode, scan, calls, task, attempted, resp>>

\* parse_file's closures on what lookup resolved to.
ParseFileRun ==
  /\ mode = "lookup"
  /\ picked # NoPick /\ identified = NoOutcome
  /\ identified' = parse_file_result(picked)
  /\ UNCHANGED <<more_vars, workers, exists, sweep, library, last_checks,
                 index, disk, clock, tokens, mode, scan, calls, task,
                 attempted, resp, picked>>

NextLookup == LookupRun \/ ParseFileRun

SpecLookup == InitLookup /\ [][NextLookup]_vars

(***************************************************************************)
(* The rate limiter with several pool workers inside parse_file's closure  *)
(* at once.  limiter.run() loops on its own thread; a worker blocked in    *)
(* ratelimit.wait() returns once a token is there for it.                  *)
(***************************************************************************)
InitLimiter ==
  /\ mode = "limiter"
  /\ clock = 0
  /\ library = {}
  /\ last_checks = <<>>
  /\ index = {}
  /\ disk = [p \in Paths |-> TRUE]
  /\ tokens = Capacity
  /\ scan = InitScan
  /\ calls = 0
  /\ task = IdleTask
  /\ attempted = <<>>
  /\ resp = NoReply
  /\ picked = NoPick
  /\ SideInit

\* thread_pool.spawn_fn: worker w enters the closure and calls
\* ratelimit.wait().
ParseFileSpawn(w) ==
  /\ mode = "limiter"
  /\ workers[w] = "idle"
  /\ workers' = [workers EXCEPT ![w] = "waiting"]
  /\ UNCHANGED <<more_vars, identified, exists, sweep, library, last_checks,
                 index, disk, clock, tokens, mode, scan, calls, task,
                 attempted, resp, picked>>

\* ratelimit.wait() returns in worker w, with a token.
WaitReturns(w) ==
  /\ mode = "limiter"
  /\ workers[w] = "waiting"
  /\ tokens > 0
  /\ tokens' = tokens - 1
  /\ workers' = [workers EXCEPT ![w] = "granted"]
  /\ UNCHANGED <<more_vars, identified, exists, sweep, library, last_checks,
                 index, disk, clock, mode, scan, calls, task, attempted,
                 resp, picked>>

\* fingerprint::get returns and the closure of worker w ends.
ClosureDone(w) ==
  /\ mode = "limiter"
  /\ workers[w] = "granted"
  /\ workers' = [workers EXCEPT ![w] = "idle"]
  /\ UNCHANGED <<more_vars, identified, exists, sweep, library, last_checks,
                 index, disk, clock, tokens, mode, scan, calls, task,
                 attempted, resp, picked>>

NextLimiter ==
  \/ LimiterRun
  \/ \E w \in Workers : ParseFileSpawn(w)
  \/ \E w \in Workers : WaitReturns(w)
  \/ \E w \in Workers : ClosureDone(w)

\* The limiter's thread keeps running, and a worker for which a token is
\* there again and again is not passed over forever.
SpecLimiter ==
  /\ InitLimiter
  /\ [][NextLimiter]_vars
  /\ WF_vars(LimiterRun)
  /\ \A w \in Workers : SF_vars(WaitReturns(w))

(***************************************************************************)
(* The pruning sweep: path_iter hands every stored (id, path) to a         *)
(* callback, which deletes the last check and the entry of a path whose    *)
(* file is gone.                                                           *)
(***************************************************************************)
PruneRowChoices(p) ==
  {{}} \cup {{Row(IdOf(p), p, FileMeta, b, FileMtime)} :
               b \in (IF p = "p1" THEN {None, "m1"} ELSE {"m1"})}

PruneLastCheckChoices(rows, p) ==
  IF rows = {} THEN {<<>>}
  ELSE {<<>>, <<[library_id |-> IdOf(p), last_check |-> Instant(1)]>>}

InitPrune ==
  /\ mode = "prune"
  /\ clock = 1
  /\ \E r1 \in PruneRowChoices("p1"), r2 \in PruneRowChoices("p2"),
        r3 \in PruneRowChoices("p3") :
       /\ library = r1 \cup r2 \cup r3
       /\ \E l1 \in PruneLastCheckChoices(r1, "p1"),
             l2 \in PruneLastCheckChoices(r2, "p2"),
             l3 \in PruneLastCheckChoices(r3, "p3") :
            last_checks = l1 \o l2 \o l3
  /\ index = {}
  /\ disk = [p \in Paths |-> TRUE]
  /\ tokens = Capacity
  /\ scan = InitScan
  /\ calls = 0
  /\ task = IdleTask
  /\ attempted = <<>>
  /\ resp = NoReply
  /\ picked = NoPick
  /\ identified = NoOutcome
  /\ workers = IdleWorkers
  /\ exists \in SUBSET Paths
  /\ sweep = IdleSweep
  /\ MoreInit

\* A sweep starts: path_iter's query.
PruneStart ==
  /\ mode \in {"prune", "race"}
  /\ sweep.state \in {"idle", "finished"}
  /\ sweep.passes < MaxSweeps
  /\ \E db_ok \in BOOLEAN :
       sweep' = IF db_ok
                  THEN [sweep EXCEPT !.state = "running", !.step = "next",
                                     !.todo = path_iter(library), !.count = 0]
                  ELSE [sweep EXCEPT !.state = "failed"]
  /\ UNCHANGED <<more_vars, identified, workers, exists, library,
                 last_checks, index, disk, clock, tokens, mode, scan, calls,
                 task, attempted, resp, picked>>

\* The callback finds the file of the row on disk.
PruneKeep ==
  /\ sweep.state = "running" /\ sweep.step = "next"
  /\ sweep.todo # <<>>
  /\ Head(sweep.todo).path \in exists
  /\ sweep' = [sweep EXCEPT !.todo = Tail(@)]
  /\ UNCHANGED <<more_vars, identified, workers, exists, library,
                 last_checks, index, disk, clock, tokens, mode, scan, calls,
                 task, attempted, resp, picked>>

\* The callback finds no file: delete_acoustid_last_check(id).
PruneDeleteLastCheck ==
  /\ sweep.state = "running" /\ sweep.step = "next"
  /\ sweep.todo # <<>>
  /\ Head(sweep.todo).path \notin exists
  /\ \E db_ok \in BOOLEAN :
       IF db_ok
         THEN /\ last_checks' = delete_acoustid_last_check(
                                  last_checks, Head(sweep.todo).id)
              /\ sweep' = [sweep EXCEPT !.step = "file"]
         ELSE /\ sweep' = [sweep EXCEPT !.state = "failed"]
              /\ UNCHANGED last_checks
  /\ UNCHANGED <<more_vars, identified, workers, exists, library, index,
                 disk, clock, tokens, mode, scan, calls, task, attempted,
                 resp, picked>>

\* delete_file(id), after the last check of the row is gone; the store
\* refuses the DELETE while a last check refers to the row.
PruneDeleteFile ==
  /\ sweep.state = "running" /\ sweep.step = "file"
  /\ \E db_ok \in BOOLEAN :
       IF db_ok /\ fk_allows_delete(last_checks, Head(sweep.todo).id)
         THEN /\ library' = delete_file(library, Head(sweep.todo).id)
              /\ sweep' = [sweep EXCEPT
                             !.step = "next", !.todo = Tail(@),
                             !.count = @ + 1,
                             !.deleted = @ \cup {Head(sweep.todo).path}]
         ELSE /\ sweep' = [sweep EXCEPT !.state = "failed"]
              /\ UNCHANGED library
  /\ UNCHANGED <<more_vars, identified, workers, exists, last_checks, index,
                 disk, clock, tokens, mode, scan, calls, task, attempted,
                 resp, picked>>

\* path_iter has handed over its last row.
PruneDone ==
  /\ sweep.state = "running" /\ sweep.step = "next"
  /\ sweep.todo = <<>>
  /\ sweep' = [sweep EXCEPT !.state = "finished", !.passes = @ + 1]
  /\ UNCHANGED <<more_vars, identified, workers, exists, library,
                 last_checks, index, disk, clock, tokens, mode, scan, calls,
                 task, attempted, resp, picked>>

NextPrune ==
  \/ PruneStart
  \/ PruneKeep
  \/ PruneDeleteLastCheck
  \/ PruneDeleteFile
  \/ PruneDone

SpecPrune == InitPrune /\ [][NextPrune]_vars

(***************************************************************************)
(* Processor::new and the scan that follows it (processor.rs).  The store  *)
(* and the index are what earlier runs left.                               *)
(***************************************************************************)
\* The documents an earlier run left in the index: none, or for a stored
\* entry the document of the entry as it is or as it was before its tags
\* changed and before it was identified.
EarlierDocs(rows) ==
  {{}} \cup {{to_document(r)} : r \in rows}
       \cup {{to_document(Row(r.id, r.path, StaleMeta, None, r.mtime))} :
               r \in rows}

InitNew ==
  /\ mode = "new"
  /\ clock = 1
  /\ \E r1 \in RowSetChoices("p1"), r2 \in {{r} : r \in RowChoices("p2")},
        r3 \in {{r} : r \in RowChoices("p3")} :
       /\ library = r1 \cup r2 \cup r3
       /\ \E l1 \in LastCheckChoices(r1, "p1", clock),
             l2 \in LastCheckChoices(r2, "p2", clock),
             l3 \in LastCheckChoices(r3, "p3", clock) :
            last_checks = l1 \o l2 \o l3
       /\ \E d1 \in EarlierDocs(r1), d2 \in EarlierDocs(r2) :
            index = d1 \cup d2
  /\ disk \in {[p \in Paths |-> IF p = "p1" THEN u ELSE TRUE] : u \in BOOLEAN}
  /\ tokens = Capacity
  /\ scan = InitScan
  /\ calls = 0
  /\ task = IdleTask
  /\ attempted = <<>>
  /\ resp = NoReply
  /\ picked = NoPick
  /\ identified = NoOutcome
  /\ workers = IdleWorkers
  /\ exists = Paths
  /\ sweep = IdleSweep
  /\ \E k \in BOOLEAN :
       proc = [state |-> "none", has_key |-> k, err |-> "none",
               requests |-> <<>>]
  /\ gw = IdleGw
  /\ pool = IdlePool
  /\ rate = IdleRate

\* A variant of ProcessorNew that does not look for the key.
ProcessorNew_KeyIgnored ==
  /\ mode = "new" /\ proc.state = "none"
  /\ \E env_ok \in BOOLEAN :
       proc' = [proc EXCEPT !.state = IF env_ok THEN "ensure"
                                      ELSE "panicked"]
  /\ UNCHANGED <<identified, workers, exists, sweep, gw, pool, rate, library,
                 last_checks, index, disk, clock, tokens, mode, scan, calls,
                 task, attempted, resp, picked>>

\* Processor::new up to core.run: the key is looked up first and its
\* absence returned as ApiKeyError; then the core, the pool, and the three
\* collaborators are built, whose constructors panic when DATABASE_URL or
\* ELASTICSEARCH_URL is not set or the connection pool cannot be built.
ProcessorNew ==
  /\ mode = "new" /\ proc.state = "none"
  /\ IF ~proc.has_key
       THEN proc' = [proc EXCEPT !.state = "failed", !.err = "ApiKeyError"]
       ELSE \E env_ok \in BOOLEAN :
              proc' = [proc EXCEPT !.state = IF env_ok THEN "ensure"
                                             ELSE "panicked"]
  /\ UNCHANGED <<identified, workers, exists, sweep, gw, pool, rate, library,
                 last_checks, index, disk, clock, tokens, mode, scan, calls,
                 task, attempted, resp, picked>>

\* What the index answers to IndicesExistsRequest; an index that holds
\* documents exists.
ExistsAnswers ==
  IF index = {} THEN {"error", "200", "404", "other"}
  ELSE {"error", "200", "other"}

\* core.run(search.ensure_index_exists()).unwrap(): the request, then by
\* the status nothing, create_index, or handle_other_response.  An error of
\* any of them is Err(()) and unwrap panics; otherwise new returns
\* Ok(Self).
EnsureIndexExists ==
  /\ mode = "new" /\ proc.state = "ensure"
  /\ \E status \in ExistsAnswers, then_ok \in BOOLEAN :
       LET reqs == IF status = "404"
                     THEN <<"indices_exists", "index_create">>
                     ELSE <<"indices_exists">>
           ok == status = "200" \/ (status \in {"404", "other"} /\ then_ok)
       IN /\ proc' = [proc EXCEPT !.requests = reqs,
                                  !.state = IF ok THEN "constructed"
                                            ELSE "panicked"]
          /\ mode' = IF ok THEN "scan" ELSE mode
  /\ UNCHANGED <<identified, workers, exists, sweep, gw, pool, rate, library,
                 last_checks, index, disk, clock, tokens, scan, calls, task,
                 attempted, resp, picked>>

NextNew ==
  \/ ProcessorNew
  \/ EnsureIndexExists
  \/ Tick
  \/ LimiterRun
  \/ ScanDirs
  \/ ScanReadFile
  \/ ScanRootDone
  \/ ScanInsertDocument
  \/ ScanPipelineError
  \/ Fetch
  \/ DT_UpdateFile
  \/ DT_Refetch
  \/ DT_GetLastCheck
  \/ DT_Joined
  \/ LastCheckWrite
  \/ RatelimitWait
  \/ Fingerprint
  \/ Lookup
  \/ UpdateFileUuid

SpecNew == InitNew /\ [][NextNew]_vars

(***************************************************************************)
(* The gateway called on its own (database.rs): insert_file for a path     *)
(* that has no row, update_file for one that has, each with a connection   *)
(* that may not be had and a statement that may fail.                      *)
(***************************************************************************)
MaxGatewayCalls == 3

InitGateway ==
  /\ mode = "gateway"
  /\ clock = 1
  /\ \E r1 \in PruneRowChoices("p1"), r2 \in PruneRowChoices("p2"),
        r3 \in PruneRowChoices("p3") :
       library = {Row(r.id, r.path, StaleMeta, r.mbid, r.mtime) :
                    r \in r1 \cup r2 \cup r3}
  /\ last_checks = <<>>
  /\ index = {}
  /\ disk = [p \in Paths |-> TRUE]
  /\ tokens = Capacity
  /\ scan = InitScan
  /\ calls = 0
  /\ task = IdleTask
  /\ attempted = <<>>
  /\ resp = NoReply
  /\ picked = NoPick
  /\ SideInit

\* conn.insert_file(&info), info read from the file of a path without a row.
GatewayInsertFile(path) ==
  /\ mode = "gateway"
  /\ gw.calls < MaxGatewayCalls /\ gw.kind # "Panic"
  /\ RowsOfPath(library, path) = {}
  /\ \E conn_ok \in BOOLEAN, query_ok \in BOOLEAN :
       LET res == insert_file(library, read_file(path), conn_ok, query_ok)
       IN /\ library' = res.lib
          /\ gw' = [calls |-> gw.calls + 1, op |-> "insert_file",
                    path |-> path, failed |-> ~conn_ok \/ ~query_ok,
                    kind |-> res.kind,
                    issued |-> IF conn_ok THEN 1 ELSE 0]
  /\ UNCHANGED <<identified, workers, exists, sweep, proc, pool, rate,
                 last_checks, index, disk, clock, tokens, mode, scan, calls,
                 task, attempted, resp, picked>>

\* conn.update_file(id, info), info read from the file of a stored path.
GatewayUpdateFile(path) ==
  /\ mode = "gateway"
  /\ gw.calls < MaxGatewayCalls /\ gw.kind # "Panic"
  /\ RowsOfPath(library, path) # {}
  /\ \E conn_ok \in BOOLEAN, query_ok \in BOOLEAN :
       LET id == FirstRow(RowsOfPath(library, path)).id
           res == update_file_call(library, id, read_file(path), conn_ok,
                                   query_ok)
       IN /\ library' = res.lib
          /\ gw' = [calls |-> gw.calls + 1, op |-> "update_file",
                    path |-> path, failed |-> ~conn_ok \/ ~query_ok,
                    kind |-> res.kind,
                    issued |-> IF conn_ok THEN 1 ELSE 0]
  /\ UNCHANGED <<identified, workers, exists, sweep, proc, pool, rate,
                 last_checks, index, disk, clock, tokens, mode, scan, calls,
                 task, attempted, resp, picked>>

NextGateway ==
  \/ \E path \in Paths : GatewayInsertFile(path)
  \/ \E path \in Paths : GatewayUpdateFile(path)

SpecGateway == InitGateway /\ [][NextGateway]_vars

(***************************************************************************)
(* The CpuPool (processor.rs).  Processor::new builds one pool of          *)
(* num_cpus::get() threads and hands clones of it to AcoustId,             *)
(* DatabaseConnection and ElasticSearch; every spawn_fn of the pipeline    *)
(* goes to it.  The closures are those of a file whose entry is stored     *)
(* with its tags unchanged, without an external id and due for a re-check, *)
(* in the order DatabaseThread spawns them.                                *)
(***************************************************************************)
MaxPoolSize == 2
MaxPoolFiles == 2

\* The closures of one file: scan_dirs' read_file, call's fetch_file,
\* update_path_entry's get_acoustid_last_check, parse_file's closure and
\* the write of the last check, and update_file_uuid after the lookup.
Closures ==
  <<"read_file", "fetch_file", "get_acoustid_last_check", "parse_file",
    "last_check_write", "update_file_uuid">>

\* The closures that run a statement of the store.
StoreClosures ==
  {"fetch_file", "get_acoustid_last_check", "last_check_write",
   "update_file_uuid"}

\* The closure whose result the event loop needs before it spawns c.
SpawnedAfter(c) ==
  CASE c = "read_file" -> "none"
    [] c = "fetch_file" -> "read_file"
    [] c = "get_acoustid_last_check" -> "fetch_file"
    [] c = "parse_file" -> "get_acoustid_last_check"
    [] c = "last_check_write" -> "get_acoustid_last_check"
    [] OTHER -> "parse_file"

\* The closures the event loop spawns now, in the order of the code.
RECURSIVE ToSpawn(_)
ToSpawn(cs) ==
  IF cs = <<>> THEN <<>>
  ELSE IF Head(cs) \notin pool.spawned
          /\ (SpawnedAfter(Head(cs)) = "none"
              \/ SpawnedAfter(Head(cs)) \in pool.done)
    THEN <<Head(cs)>> \o ToSpawn(Tail(cs))
  ELSE ToSpawn(Tail(cs))

\* A thread inside parse_file's closure: in ratelimit.wait(), or in
\* fingerprint::get.
Decoding == {"parse_file:wait", "parse_file:decode"}

InitPool ==
  /\ mode = "pool"
  /\ clock = 1
  /\ library = {}
  /\ last_checks = <<>>
  /\ index = {}
  /\ disk = [p \in Paths |-> TRUE]
  /\ tokens \in 0..Capacity
  /\ scan = InitScan
  /\ calls = 0
  /\ task = IdleTask
  /\ attempted = <<>>
  /\ resp = NoReply
  /\ picked = NoPick
  /\ identified = NoOutcome
  /\ workers = IdleWorkers
  /\ exists = Paths
  /\ sweep = IdleSweep
  /\ proc = ConstructedProc
  /\ gw = IdleGw
  /\ \E n \in 1..MaxPoolSize : pool = [IdlePool EXCEPT !.size = n]
  /\ rate = IdleRate

\* The event loop polls the pipeline: spawn_fn puts each closure that is
\* due on the pool's queue at once; when the last closure of a file is done
\* the stream goes to the next file.
EventLoopPoll ==
  /\ mode = "pool"
  /\ pool.files < MaxPoolFiles
  /\ IF pool.done = Range(Closures)
       THEN pool' = [pool EXCEPT !.spawned = {}, !.done = {},
                                 !.files = @ + 1]
       ELSE /\ ToSpawn(Closures) # <<>>
            /\ pool' = [pool EXCEPT
                          !.queue = @ \o ToSpawn(Closures),
                          !.spawned = @ \cup Range(ToSpawn(Closures))]
  /\ UNCHANGED <<identified, workers, exists, sweep, proc, gw, rate, library,
                 last_checks, index, disk, clock, tokens, mode, scan, calls,
                 task, attempted, resp, picked>>

\* A variant of PoolTake in which a closure starts though every thread is
\* taken.
PoolTake_Unbounded ==
  /\ mode = "pool"
  /\ pool.queue # <<>>
  /\ pool' = [pool EXCEPT
                !.queue = Tail(@),
                !.running = @ \cup {IF Head(pool.queue) = "parse_file"
                                      THEN "parse_file:wait"
                                      ELSE Head(pool.queue)}]
  /\ UNCHANGED <<identified, workers, exists, sweep, proc, gw, rate, library,
                 last_checks, index, disk, clock, tokens, mode, scan, calls,
                 task, attempted, resp, picked>>

\* A thread of the pool that is in no closure takes the one at the head of
\* the queue; parse_file's closure begins with ratelimit.wait().
PoolTake ==
  /\ mode = "pool"
  /\ pool.queue # <<>>
  /\ Cardinality(pool.running) < pool.size
  /\ pool' = [pool EXCEPT
                !.queue = Tail(@),
                !.running = @ \cup {IF Head(pool.queue) = "parse_file"
                                      THEN "parse_file:wait"
                                      ELSE Head(pool.queue)}]
  /\ UNCHANGED <<identified, workers, exists, sweep, proc, gw, rate, library,
                 last_checks, index, disk, clock, tokens, mode, scan, calls,
                 task, attempted, resp, picked>>

\* ratelimit.wait() returns in the thread that runs parse_file's closure.
PoolWaitReturns ==
  /\ mode = "pool"
  /\ "parse_file:wait" \in pool.running
  /\ tokens > 0
  /\ tokens' = tokens - 1
  /\ pool' = [pool EXCEPT
                !.running = (@ \ {"parse_file:wait"})
                              \cup {"parse_file:decode"}]
  /\ UNCHANGED <<identified, workers, exists, sweep, proc, gw, rate, library,
                 last_checks, index, disk, clock, mode, scan, calls, task,
                 attempted, resp, picked>>

\* A closure returns and its thread is free again.
PoolClosureDone(c) ==
  /\ mode = "pool"
  /\ c \in pool.running /\ c # "parse_file:wait"
  /\ pool' = [pool EXCEPT
                !.running = @ \ {c},
                !.done = @ \cup {IF c = "parse_file:decode"
                                   THEN "parse_file" ELSE c}]
  /\ UNCHANGED <<identified, workers, exists, sweep, proc, gw, rate, library,
                 last_checks, index, disk, clock, tokens, mode, scan, calls,
                 task, attempted, resp, picked>>

NextPool ==
  \/ LimiterRun
  \/ EventLoopPoll
  \/ PoolTake
  \/ PoolWaitReturns
  \/ \E c \in Range(Closures) \cup Decoding : PoolClosureDone(c)

SpecPool == InitPool /\ [][NextPool]_vars

(***************************************************************************)
(* The rate limiter in time (acoustid.rs).  A tick is half a second.  The  *)
(* limiter's thread adds quantum tokens each interval; a caller of         *)
(* parse_file takes its token before fingerprint::get and sends the lookup *)
(* request after it, and every step takes any time from none upward.       *)
(***************************************************************************)
MaxRateTicks == 3
MaxRateCallers == 2
\* .interval(Duration::new(1, 0)), in ticks.
IntervalTicks == 1 * TicksPerSecond
RateCallers == 1..MaxRateCallers

InitRate ==
  /\ mode = "rate"
  /\ clock = 1
  /\ library = {}
  /\ last_checks = <<>>
  /\ index = {}
  /\ disk = [p \in Paths |-> TRUE]
  /\ tokens = Capacity
  /\ scan = InitScan
  /\ calls = 0
  /\ task = IdleTask
  /\ attempted = <<>>
  /\ resp = NoReply
  /\ picked = NoPick
  /\ SideInit

\* Half a second passes; when an interval of the limiter ends with it,
\* limiter.run() adds quantum tokens, up to capacity.
RateTick ==
  /\ mode = "rate"
  /\ rate.now < MaxRateTicks
  /\ rate' = [rate EXCEPT !.now = @ + 1]
  /\ tokens' = IF (rate.now + 1) % IntervalTicks = 0
                 THEN (IF tokens + Quantum > Capacity THEN Capacity
                       ELSE tokens + Quantum)
                 ELSE tokens
  /\ UNCHANGED <<identified, workers, exists, sweep, proc, gw, pool, library,
                 last_checks, index, disk, clock, mode, scan, calls, task,
                 attempted, resp, picked>>

\* parse_file is called: its closure is spawned and calls ratelimit.wait().
RateSpawn(w) ==
  /\ mode = "rate"
  /\ workers[w] = "idle"
  /\ workers' = [workers EXCEPT ![w] = "waiting"]
  /\ UNCHANGED <<identified, exists, sweep, more_vars, library, last_checks,
                 index, disk, clock, tokens, mode, scan, calls, task,
                 attempted, resp, picked>>

\* ratelimit.wait() returns with a token and fingerprint::get begins.
RateWaitReturns(w) ==
  /\ mode = "rate"
  /\ workers[w] = "waiting"
  /\ tokens > 0
  /\ tokens' = tokens - 1
  /\ workers' = [workers EXCEPT ![w] = "granted"]
  /\ UNCHANGED <<identified, exists, sweep, more_vars, library, last_checks,
                 index, disk, clock, mode, scan, calls, task, attempted,
                 resp, picked>>

\* fingerprint::get has returned and lookup sends its GET.
RateLookup(w) ==
  /\ mode = "rate"
  /\ workers[w] = "granted"
  /\ workers' = [workers EXCEPT ![w] = "idle"]
  /\ rate' = [rate EXCEPT !.sends = Append(@, rate.now)]
  /\ UNCHANGED <<identified, exists, sweep, proc, gw, pool, library,
                 last_checks, index, disk, clock, tokens, mode, scan, calls,
                 task, attempted, resp, picked>>

NextRate ==
  \/ RateTick
  \/ \E w \in RateCallers : RateSpawn(w)
  \/ \E w \in RateCallers : RateWaitReturns(w)
  \/ \E w \in RateCallers : RateLookup(w)

SpecRate == InitRate /\ [][NextRate]_vars

(***************************************************************************)
(* insert_path_entry of either engine on its own: the branch as it is      *)
(* written, entered for a path that has no row.  FileProcessor's join is   *)
(* the join of handle_acoustid with no earlier last check, so              *)
(* LastCheckWrite, RatelimitWait, Fingerprint, Lookup and UpdateFileUuid   *)
(* are its steps; DatabaseThread's last join is that of the last-check     *)
(* write and update_file_uuid.                                             *)
(***************************************************************************)
InitInsert ==
  /\ mode = "insert"
  /\ clock \in 0..1
  /\ \E r2 \in RowChoices("p2"), r3 \in RowChoices("p3") :
       /\ library = {r2, r3}
       /\ \E l2 \in LastCheckChoices({r2}, "p2", clock),
             l3 \in LastCheckChoices({r3}, "p3", clock) :
            last_checks = l2 \o l3
  /\ index = {}
  /\ disk \in {[p \in Paths |-> IF p = "p1" THEN u ELSE TRUE] : u \in BOOLEAN}
  /\ tokens = Capacity
  /\ scan = InitScan
  /\ calls = 1
  /\ \/ task = [NewTask("FileProcessor", "p1", NoRow)
                  EXCEPT !.pc = "ins_read"]
     \/ /\ disk["p1"]
        /\ task = [NewTask("DatabaseThread", "p1", read_file("p1"))
                     EXCEPT !.pc = "dt_insert"]
  /\ attempted = <<>>
  /\ resp = NoReply
  /\ picked = NoPick
  /\ SideInit

\* self.read_file_info(&path): a file the reader rejects ends the branch
\* with NothingUseful.
FP_InsertReadFileInfo ==
  /\ task.pc = "ins_read"
  /\ task' = IF disk[task.path]
               THEN [task EXCEPT !.info = read_file(task.path),
                                 !.pc = "insert"]
               ELSE Done(task, "Err")
  /\ UNCHANGED <<side_vars, library, last_checks, index, disk, clock, tokens,
                 mode, scan, calls, attempted, resp, picked>>

\* A variant of FP_InsertFile that goes on to the join whether or not the
\* insert succeeded.
FP_InsertFile_JoinRegardless ==
  /\ task.pc = "insert"
  /\ \E conn_ok \in BOOLEAN, query_ok \in BOOLEAN :
       LET res == insert_file(library, task.info, conn_ok, query_ok) IN
         /\ library' = res.lib
         /\ task' = [task EXCEPT
                       !.db_info = res.val, !.ret = res.val,
                       !.now = Instant(clock), !.pc = "join",
                       !.lc = "pending", !.ac = "wait",
                       !.wrote = IF res.kind = "Ok"
                                   THEN @ \cup {"insert_file"} ELSE @]
  /\ UNCHANGED <<side_vars, last_checks, index, disk, clock, tokens, mode,
                 scan, calls, attempted, resp, picked>>

\* conn.insert_file(&info) resolves, and on Ok the closure behind and_then
\* starts add_acoustid_last_check(id, Utc::now()) and parse_file and joins
\* them.
FP_InsertFile ==
  /\ task.pc = "insert"
  /\ \E conn_ok \in BOOLEAN, query_ok \in BOOLEAN :
       LET res == insert_file(library, task.info, conn_ok, query_ok) IN
         /\ library' = res.lib
         /\ task' = CASE res.kind = "Err" -> Done(task, "Err")
                      [] res.kind = "Panic" -> Done(task, "Panic")
                      [] OTHER ->
                           [task EXCEPT
                              !.db_info = res.val, !.ret = res.val,
                              !.now = Instant(clock), !.pc = "join",
                              !.lc = "pending", !.ac = "wait",
                              !.wrote = @ \cup {"insert_file"}]
  /\ UNCHANGED <<side_vars, last_checks, index, disk, clock, tokens, mode,
                 scan, calls, attempted, resp, picked>>

\* DatabaseThread::insert_path_entry: work.conn.insert_file resolves, and
\* on Ok the closure behind and_then starts parse_file and fetch_file.
DT_InsertFile ==
  /\ task.pc = "dt_insert"
  /\ \E conn_ok \in BOOLEAN, query_ok \in BOOLEAN :
       LET res == insert_file(library, task.info, conn_ok, query_ok) IN
         /\ library' = res.lib
         /\ task' = CASE res.kind = "Err" -> Done(task, "Err")
                      [] res.kind = "Panic" -> Done(task, "Panic")
                      [] OTHER ->
                           [task EXCEPT
                              !.pc = "dt_ins_join", !.ac = "wait",
                              !.up = "refetch",
                              !.wrote = @ \cup {"insert_file"}]
  /\ UNCHANGED <<side_vars, last_checks, index, disk, clock, tokens, mode,
                 scan, calls, attempted, resp, picked>>

\* acoustid.parse_file(path), one side of the join after the insert:
\* ratelimit.wait(), fingerprint::get, the lookup.
DT_InsertParseFile ==
  /\ task.pc = "dt_ins_join"
  /\ \/ /\ task.ac = "wait" /\ tokens > 0
        /\ tokens' = tokens - 1
        /\ task' = [task EXCEPT !.ac = "fingerprint", !.acquired = @ + 1]
        /\ UNCHANGED resp
     \/ /\ task.ac = "fingerprint"
        /\ \E outcome \in FingerprintOutcomes :
             task' = CASE outcome = "Ok" ->
                            [task EXCEPT !.fp = outcome, !.ac = "lookup"]
                       [] outcome \in {"NoAudioStream", "FFmpeg"} ->
                            [task EXCEPT !.fp = outcome, !.ac = "ok"]
                       [] OTHER -> Done([task EXCEPT !.fp = outcome], "Err")
        /\ UNCHANGED <<tokens, resp>>
     \/ /\ task.ac = "lookup"
        /\ \E reply \in ScanReplies :
             LET r == parse_file_result(lookup(reply))
                 t1 == [task EXCEPT !.lookups = @ + 1]
             IN /\ resp' = reply
                /\ task' = CASE r.kind = "Match" ->
                                  [t1 EXCEPT !.ac = "stamp", !.mbid = r.mbid]
                             [] r.kind = "NoMatch" -> [t1 EXCEPT !.ac = "ok"]
                             [] OTHER -> Done(t1, "Err")
        /\ UNCHANGED tokens
  /\ UNCHANGED <<side_vars, library, last_checks, index, disk, clock, mode,
                 scan, calls, attempted, picked>>

\* conn1.fetch_file(path), the other side of that join; a None becomes
\* NothingUseful.
DT_InsertFetch ==
  /\ task.pc = "dt_ins_join" /\ task.up = "refetch"
  /\ \E conn_ok \in BOOLEAN :
       LET res == fetch_file(library, task.path, conn_ok) IN
         task' = CASE res.kind = "Err" -> Done(task, "Err")
                   [] res.kind = "Panic" -> Done(task, "Panic")
                   [] OTHER -> [task EXCEPT !.db_info = res.val,
                                            !.ret = res.val, !.up = "ok"]
  /\ UNCHANGED <<side_vars, library, last_checks, index, disk, clock, tokens,
                 mode, scan, calls, attempted, resp, picked>>

\* Both sides are ready: add_acoustid_last_check(info.id, Utc::now()) and,
\* for Some(mbid), update_file_uuid are started and joined.
DT_InsertJoined ==
  /\ task.pc = "dt_ins_join" /\ task.up = "ok"
  /\ task.ac \in {"stamp", "ok"}
  /\ task' = [task EXCEPT !.pc = "join", !.lc = "pending",
                          !.now = Instant(clock)]
  /\ UNCHANGED <<side_vars, library, last_checks, index, disk, clock, tokens,
                 mode, scan, calls, attempted, resp, picked>>

NextInsert ==
  \/ Tick
  \/ LimiterRun
  \/ FP_InsertReadFileInfo
  \/ FP_InsertFile
  \/ DT_InsertFile
  \/ DT_InsertParseFile
  \/ DT_InsertFetch
  \/ DT_InsertJoined
  \/ LastCheckWrite
  \/ RatelimitWait
  \/ Fingerprint
  \/ Lookup
  \/ UpdateFileUuid

SpecInsert == InitInsert /\ [][NextInsert]_vars

(***************************************************************************)
(* A pruning sweep and FileProcessor's reconciliations side by side, each  *)
(* statement of either a step of its own.                                  *)
(***************************************************************************)
InitRace ==
  /\ mode = "race"
  /\ clock = 1
  /\ \E r2 \in RowChoices("p2"), r3 \in RowChoices("p3") :
       LET r1 == Row(IdOf("p1"), "p1", FileMeta, None, FileMtime) IN
         /\ library = {r1, r2, r3}
         /\ \E l1 \in LastCheckChoices({r1}, "p1", clock),
               l2 \in LastCheckChoices({r2}, "p2", clock),
               l3 \in LastCheckChoices({r3}, "p3", clock) :
              last_checks = l1 \o l2 \o l3
  /\ index = {}
  /\ disk = [p \in Paths |-> TRUE]
  /\ tokens = Capacity
  /\ scan = InitScan
  /\ calls = 0
  /\ task = IdleTask
  /\ attempted = <<>>
  /\ resp = NoReply
  /\ picked = NoPick
  /\ identified = NoOutcome
  /\ workers = IdleWorkers
  /\ exists \in SUBSET Paths
  /\ sweep = IdleSweep
  /\ MoreInit

NextRace ==
  \/ \E path \in Paths : FileProcessorCall(path)
  \/ Fetch
  \/ FP_GetLastCheck
  \/ LastCheckWrite
  \/ RatelimitWait
  \/ Fingerprint
  \/ Lookup
  \/ UpdateFileUuid
  \/ PruneStart
  \/ PruneKeep
  \/ PruneDeleteLastCheck
  \/ PruneDeleteFile
  \/ PruneDone

SpecRace == InitRace /\ [][NextRace]_vars

(***************************************************************************)
(* Properties.                                                             *)
(***************************************************************************)

\* The rows stored for the path of the reconciliation in flight.
TaskRows == RowsOfPath(library, task.path)

\* The reconciliation has ended, and not with an error it reported.
Settled == task.pc = "done" /\ task.result # "Err"

\* The reconciliation is of a path that had no entry and that the metadata
\* reader finds usable.
NewUsablePath == task.pc # "idle" /\ ~task.pre /\ disk[task.path]

\* Every file of every configured root.
Discovered ==
  UNION {Range(scan_dir(ConfigPaths[i])) : i \in 1..Len(ConfigPaths)}

\* The first recording of the result with the largest score, the earliest
\* such result in the reply, or None.
TopRecording(reply) ==
  IF ~reply.transport_ok \/ ~reply.body.json_ok \/ ~reply.body.results.some
     \/ reply.body.results.val = <<>>
    THEN None
  ELSE LET l == reply.body.results.val
           i == CHOOSE i \in 1..Len(l) :
                  /\ \A j \in 1..Len(l) : l[j].score <= l[i].score
                  /\ \A j \in 1..(i - 1) : l[j].score < l[i].score
       IN IF l[i].recordings.some /\ l[i].recordings.val # <<>>
            THEN l[i].recordings.val[1] ELSE None

\* C1: once a reconciliation of a path that had no entry and has usable
\* metadata has ended without reporting an error, the store holds exactly
\* one entry for the path.
C1_NewPathGetsOneEntry ==
  (Settled /\ NewUsablePath) => Cardinality(TaskRows) = 1

\* C2: a reconciliation of an entry whose external id is set makes no call
\* to the identification service, takes no token, and leaves the stored
\* external id as it was.
C2_IdentifiedEntryLeftAlone ==
  (task.pc # "idle" /\ task.pre_mbid # None) =>
    /\ task.lookups = 0
    /\ task.acquired = 0
    /\ \A r \in TaskRows : r.mbid = task.pre_mbid

\* C3 as stated: an entry with no external id whose last check is less than
\* 1,209,600 seconds before the current time gets no lookup call and takes
\* no token of the rate limiter.
C3_FreshByElapsedTime ==
  (task.decided # "none" /\ task.pre_mbid = None /\ task.last_check.some
   /\ task.now - task.last_check.val < TwoWeeksTicks) =>
    (task.lookups = 0 /\ task.acquired = 0)

\* C3, amended: an entry with no external id whose last check, as a whole
\* number of seconds since the epoch, is less than 1,209,600 below the
\* current time as a whole number of seconds, gets no lookup call, takes no
\* token, keeps its last check, and its reconciliation returns Ok.
C3_FreshByTimestamp ==
  (task.decided # "none" /\ task.pre_mbid = None /\ task.last_check.some
   /\ timestamp(task.now) - timestamp(task.last_check.val) < TwoWeeks) =>
    /\ task.decided = "fresh"
    /\ task.lookups = 0
    /\ task.acquired = 0
    /\ task.pc = "done" /\ task.result = "Ok"
    /\ get_acoustid_last_check(last_checks, task.db_info.id) = task.last_check

\* C3, witness: a reconciliation stopped at a last check one second inside
\* the two weeks.
C3_Witness ==
  /\ task.pc = "done" /\ task.result = "Ok" /\ task.decided = "fresh"
  /\ task.pre_mbid = None /\ task.last_check.some
  /\ timestamp(task.now) - timestamp(task.last_check.val) = TwoWeeks - 1

C5_SelectsFirstMaximum ==
  (picked # NoPick /\ resp.transport_ok /\ resp.body.json_ok
   /\ resp.body.results.some /\ resp.body.results.val # <<>>) =>
    /\ picked.ok
    /\ LET l == resp.body.results.val
           r == picked.val[1]
       IN \E i \in 1..Len(l) :
            /\ l[i] = r
            /\ \A j \in 1..Len(l) : l[j].score <= r.score
            /\ \A j \in 1..(i - 1) : l[j].score < r.score

\* C5, witness: a reply whose second and third results tie for the largest
\* score: the second is selected.
C5_Witness ==
  /\ picked.ok
  /\ Len(resp.body.results.val) = 3
  /\ resp.body.results.val[1].score < resp.body.results.val[2].score
  /\ resp.body.results.val[2].score = resp.body.results.val[3].score
  /\ picked.val[1].id = 2

\* C6: once a reconciliation of a new usable path has ended without
\* reporting an error and without a match, the path has an entry with no
\* external id and a last check recorded for it.
C6_NewPathNoMatchRecordsLastCheck ==
  (Settled /\ NewUsablePath /\ task.mbid = None) =>
    \E r \in TaskRows :
      r.mbid = None /\ get_acoustid_last_check(last_checks, r.id).some

\* C7: once a reconciliation of a new usable path has ended without
\* reporting an error, the path has an entry, and if the lookup was answered
\* with a top result that has a first recording R, the entry's external id
\* is R and a last check is recorded for it.
C7_NewPathMatchStamped ==
  (Settled /\ NewUsablePath) =>
    \E r \in TaskRows :
      (task.lookups = 1 /\ TopRecording(resp) # None) =>
        (r.mbid = TopRecording(resp)
         /\ get_acoustid_last_check(last_checks, r.id).some)

\* C8: when the pipeline of one path has ended in an error, the scan does
\* not end before every path of every root has been attempted.
C8_ErrorDoesNotHaltScan ==
  (scan.state \in {"finished", "panicked"} /\ task.pc = "done"
   /\ task.result = "Err") =>
    Discovered \subseteq Range(attempted)

\* C9: no path is handed to the pipeline twice in a pass, and a scan that
\* has ended has handed every discovered path to it.
C9_EveryPathOnce ==
  /\ \A i, j \in 1..Len(attempted) : attempted[i] = attempted[j] => i = j
  /\ scan.state \in {"finished", "panicked"} =>
       Discovered \subseteq Range(attempted)

\* C10: once the descriptive fields of a usable file were to be written, by
\* the insert of a new path or by an update, the entry carries them however
\* the reconciliation went on, and no token is taken and no lookup is made
\* before the entry carries them.
C10_FieldsPersistedBeforeLookup ==
  /\ (Settled /\ task.pc # "idle" /\ disk[task.path]
      /\ (~task.pre \/ "update_file" \in task.wrote)) =>
       \E r \in TaskRows : Meta(r) = FileMeta
  /\ (task.pc # "idle" /\ (task.acquired > 0 \/ task.lookups > 0)
      /\ (~task.pre \/ task.info # NoRow)) =>
       \E r \in TaskRows : Meta(r) = FileMeta

\* The reply could not be obtained or could not be parsed.
TransientReply(reply) == ~reply.transport_ok \/ ~reply.body.json_ok

\* parse_file resolved to Ok(None).
NoMatchReported == task.ac = "ok" /\ task.mbid = None

\* C11: a reconciliation whose lookup met a transport failure or a
\* malformed response ends in the successful state, as it does for no match.
C11_TransientLookupErrorNonFatal ==
  (task.pc = "done" /\ task.lookups = 1 /\ TransientReply(resp)) =>
    task.result = "Ok"

\* C12: after a reconciliation that returned Ok for an existing entry whose
\* stored modification time differed from the file's, the stored title,
\* artist, album, track, track_number, duration and modification time equal
\* what was read from the file.
C12_FieldsAndMtimeUpdated ==
  (task.pc = "done" /\ task.result = "Ok" /\ task.pre
   /\ task.db_info.mtime # get_mtime(task.path)) =>
    \E r \in TaskRows :
      /\ Meta(r) = Meta(read_file(task.path))
      /\ r.mtime = get_mtime(task.path)

\* C14: the lookup requests a reconciliation has issued never exceed the
\* tokens it has been granted, and it issues at most one.
C14_LookupAfterToken ==
  /\ task.lookups <= task.acquired
  /\ task.lookups <= 1
  /\ (task.pc = "join" /\ task.ac \in {"lookup", "stamp"}) => task.acquired = 1

\* C14, witness: a lookup request has been issued, after one token.
C14_Witness ==
  task.pc = "join" /\ task.ac = "stamp" /\ task.lookups = 1 /\ task.acquired = 1

\* C17: parse_file reports no match only when the fingerprint was computed,
\* the service answered, the body was parsed, and it carried a results list.
C17_NoMatchOnlyWhenServiceSaidNo ==
  NoMatchReported =>
    /\ task.fp = "Ok"
    /\ task.lookups = 1
    /\ resp.transport_ok /\ resp.body.json_ok /\ resp.body.results.some

\* C18: the fetch of a path that has no entry does not fail: no
\* reconciliation of such a path ends in the panic of fetch_file.
C18_AbsentPathFetchesNone ==
  (task.pc # "idle" /\ ~task.pre) => task.result # "Panic"

\* C19: a reconciliation of a path that was not stored, when it ends other
\* than by a reported error, has returned Ok, the store holds exactly one
\* entry for the path, and the scan has not been aborted.
C19_RacingInsertTolerated ==
  (task.pc = "done" /\ ~task.pre /\ task.result # "Err") =>
    /\ task.result = "Ok"
    /\ Cardinality(TaskRows) = 1
    /\ scan.state # "panicked"

\* A step in which an operation of the gateway fails for want of a
\* connection: the reconciliation ends in an error in a step that is neither
\* the metadata read, nor the fingerprint, nor the lookup.
PoolFailureStep ==
  /\ task.pc \in {"fetch", "update", "get_last_check", "dt_join", "join"}
  /\ task'.pc = "done" /\ task'.result = "Err"
  /\ task'.lookups = task.lookups /\ task'.fp = task.fp

\* C20: a gateway operation that cannot obtain a connection returns an
\* error and leaves both tables and the index as they were; the
\* reconciliation that met the error takes no further step, and only a new
\* call by a client follows it.
C20_PoolFailureLeavesStore ==
  [][/\ PoolFailureStep =>
          (library' = library /\ last_checks' = last_checks /\ index' = index)
     /\ (task.pc = "done" /\ task.result = "Err") =>
          (task' = task
           \/ (mode = "fp" /\ calls' = calls + 1 /\ task'.pc = "fetch"))]_vars

\* C20, witness: update_file_uuid failed; the entry keeps the external id it
\* had, though the last check was written.
C20_Witness ==
  /\ task.pc = "done" /\ task.result = "Err"
  /\ task.ac = "stamp" /\ task.lc = "ok" /\ task.mbid # None
  /\ \A r \in TaskRows : r.mbid = task.pre_mbid /\ r.mbid # task.mbid

\* C16: when the result lookup selects from a non-empty results list has no
\* recordings, none listed or an empty list, parse_file reports no match, not
\* an error and not the recording of another result.
C16_TopWithoutRecordingsIsNoMatch ==
  (identified # NoOutcome /\ resp.transport_ok /\ resp.body.json_ok
   /\ resp.body.results.some /\ resp.body.results.val # <<>>
   /\ TopRecording(resp) = None) =>
    identified = [kind |-> "NoMatch", mbid |-> None]

\* C16, witness: the top result has no recordings, the one ranked below it
\* has one, and parse_file has reported no match.
C16_Witness ==
  /\ identified.kind = "NoMatch"
  /\ Len(resp.body.results.val) = 2
  /\ resp.body.results.val[1].score > resp.body.results.val[2].score
  /\ ~resp.body.results.val[1].recordings.some
  /\ resp.body.results.val[2].recordings = SomeSeq(<<"m1">>)

KeptIds == {r.id : r \in {q \in library : q.path \in exists}}

\* C13: a pruning pass that has finished has left no entry whose file is
\* gone and no last check of such an entry; a pass that follows a finished
\* one deletes nothing; and no step of a sweep removes or changes an entry
\* whose file is on disk, or its last check.
C13_PruneDeletesMissingOnly ==
  /\ [](sweep.state = "finished" =>
          /\ \A r \in library : r.path \in exists
          /\ \A i \in 1..Len(last_checks) :
               last_checks[i].library_id \in KeptIds)
  /\ [](sweep.passes >= 1 /\ sweep.state = "running" => sweep.count = 0)
  /\ [](sweep.passes >= 2 /\ sweep.state = "finished" => sweep.count = 0)
  /\ [][/\ \A r \in library : r.path \in exists => r \in library'
        /\ library' \subseteq library
        /\ \A id \in KeptIds :
             get_acoustid_last_check(last_checks', id)
               = get_acoustid_last_check(last_checks, id)]_vars

\* C13, witness: the first pass deleted the entry of p1 and its last check,
\* the second pass has finished without a deletion, and the entry of p2,
\* whose file is on disk, is still stored with its last check.
C13_Witness ==
  /\ sweep.state = "finished" /\ sweep.passes = 2 /\ sweep.count = 0
  /\ "p1" \in sweep.deleted /\ "p1" \notin exists
  /\ RowsOfPath(library, "p1") = {}
  /\ ~get_acoustid_last_check(last_checks, IdOf("p1")).some
  /\ "p2" \in exists /\ RowsOfPath(library, "p2") # {}
  /\ get_acoustid_last_check(last_checks, IdOf("p2")).some

\* C21: while the configuration has no key for the identification service,
\* Processor::new has returned nothing but ApiKeyError, no request has gone
\* to the index, no scan has started, no reconciliation has been entered,
\* and no step changes the store or the index.
C21_NoKeyFailsBeforeAnything ==
  /\ [](~proc.has_key =>
          /\ proc.state \in {"none", "failed"}
          /\ proc.state = "failed" => proc.err = "ApiKeyError"
          /\ proc.requests = <<>>
          /\ mode = "new" /\ scan = InitScan /\ attempted = <<>>
          /\ task = IdleTask)
  /\ [][~proc.has_key =>
          (library' = library /\ last_checks' = last_checks
           /\ index' = index)]_vars

\* C21, witness: Processor::new has returned ApiKeyError.
C21_Witness ==
  ~proc.has_key /\ proc.state = "failed" /\ proc.err = "ApiKeyError"

\* C22: a document is handed to the index only in a step taken when the
\* reconciliation of the file at the head of the stream has resolved Ok, and
\* it is the document of the entry that reconciliation returned; the scan
\* leaves a reconciliation that resolved Ok only by that step; and no
\* document is handed over for a file the metadata reader rejected.
C22_UpsertFollowsSuccess ==
  /\ [][Len(scan'.upserts) > Len(scan.upserts) =>
          /\ scan.state = "running" /\ scan.stage = "reconcile"
          /\ task.pc = "done" /\ task.result = "Ok"
          /\ task.path = Files[scan.pos]
          /\ scan'.upserts = Append(scan.upserts, to_document(task.ret))]_vars
  /\ [][(scan.state = "running" /\ scan.stage = "reconcile"
         /\ task.pc = "done" /\ task.result = "Ok" /\ scan' # scan) =>
          scan'.upserts = Append(scan.upserts, to_document(task.ret))]_vars
  /\ [](\A i \in 1..Len(scan.upserts) :
          /\ scan.upserts[i].path \in Range(attempted)
          /\ disk[scan.upserts[i].path])
  /\ []((scan.state = "panicked" /\ task.result # "Ok") =>
          \A i \in 1..Len(scan.upserts) : scan.upserts[i].path # task.path)

\* C22, witness: p1 was filtered out, p2 was reconciled and its document
\* handed to the index, and the reconciliation of p3 has failed.
C22_Witness ==
  /\ ~disk["p1"] /\ attempted = <<"p1", "p2", "p3">>
  /\ Len(scan.upserts) = 1 /\ scan.upserts[1].path = "p2"
  /\ task.path = "p3" /\ task.pc = "done" /\ task.result = "Err"

C24_ScanReturnsCount ==
  scan.state = "finished" =>
    /\ scan.ret.some
    /\ scan.ret.val = Len(scan.upserts)
    /\ scan.ret.val <= Len(attempted)

\* C25: a path that has no entry and whose file the metadata reader rejects
\* causes no write to the store, no token, no lookup and no document, and
\* its reconciliation does not end in a panic.
C25_UnusableNewPathFilteredSilently ==
  /\ (task.pc # "idle" /\ ~task.pre /\ ~disk[task.path]) =>
       /\ task.wrote = {} /\ task.lookups = 0 /\ task.acquired = 0
       /\ task.result # "Panic"
  /\ \A i \in 1..Len(scan.upserts) : disk[scan.upserts[i].path]

\* C26: an insert_file or update_file in which the store failed resolves to
\* an error its caller receives, having sent its statement at most once.
C26_StoreFailureReported ==
  (gw.op \in {"insert_file", "update_file"} /\ gw.failed) =>
    (gw.kind = "Err" /\ gw.issued <= 1)

\* C27: a closure of the store that waits in the pool's queue never finds
\* every thread of the pool held by parse_file's closure, in ratelimit.wait()
\* or in fingerprint::get.
C27_StoreNotBehindDecode ==
  (\E i \in 1..Len(pool.queue) : pool.queue[i] \in StoreClosures) =>
    ~(Cardinality(pool.running) = pool.size
      /\ pool.running \subseteq Decoding)

C29_ThreeLookupsPerSecond ==
  \A i \in 1..Len(rate.sends) :
    Cardinality({j \in 1..Len(rate.sends) :
                   /\ rate.sends[j] >= rate.sends[i]
                   /\ rate.sends[j] < rate.sends[i] + IntervalTicks})
      <= Capacity

\* C30: once the re-check of an entry has been decided, it stops without a
\* lookup when the last check is less than 1,209,600 seconds old, goes on to
\* the lookup when it is exactly 1,209,600 seconds old, and goes on to the
\* lookup when the entry has never been checked, whatever the time is.
C30_StalenessTest ==
  task.decided # "none" =>
    /\ (task.last_check.some
        /\ timestamp(task.now) - timestamp(task.last_check.val) < TwoWeeks)
         => task.decided = "fresh"
    /\ (task.last_check.some
        /\ timestamp(task.now) - timestamp(task.last_check.val) = TwoWeeks)
         => task.decided = "stale"
    /\ ~task.last_check.some => task.decided = "stale"

\* The rows of acoustid_last_checks that belong to the entry id.
LastChecksOf(lcs, id) == {i \in 1..Len(lcs) : lcs[i].library_id = id}

\* C31: no entry ever has more than one row in acoustid_last_checks; a step
\* that adds a row is taken by a reconciliation whose read of the last
\* check found none, for an entry that has none, and a step that changes a
\* row is taken by one whose read found a row.
C31_OneLastCheckPerEntry ==
  /\ [](\A r \in library : Cardinality(LastChecksOf(last_checks, r.id)) <= 1)
  /\ [][Len(last_checks') > Len(last_checks) =>
          /\ ~task.last_check.some
          /\ LastChecksOf(last_checks, task.db_info.id) = {}
          /\ Len(last_checks') = Len(last_checks) + 1]_vars
  /\ [][(last_checks' # last_checks /\ Len(last_checks') = Len(last_checks))
          => task.last_check.some]_vars

\* C31, witness: the second reconciliation of an entry found the last check
\* the first had added, and has updated it; the entry has one row.
C31_Witness ==
  /\ calls = 2 /\ task.pc = "done" /\ task.result = "Ok"
  /\ task.last_check.some /\ "last_check" \in task.wrote
  /\ task.last_check.val = Instant(1) /\ task.now > Instant(1)
  /\ Cardinality(LastChecksOf(last_checks, task.db_info.id)) = 1
  /\ get_acoustid_last_check(last_checks, task.db_info.id) = SomeT(task.now)

\* C32: the entry a reconciliation returns with Ok carries the mbid the
\* stored entry has at that moment, and when the lookup of this
\* reconciliation stamped an mbid, the document made of the returned entry
\* carries that mbid as text.
C32_ReturnedEntryIsStoredEntry ==
  (task.pc = "done" /\ task.result = "Ok") =>
    /\ \A r \in TaskRows : task.ret.mbid = r.mbid
    /\ "update_file_uuid" \in task.wrote =>
         to_document(task.ret).mbid = to_string(task.mbid)

\* FileProcessor's reconciliation of an entry whose stored mtime is not the
\* file's has reached the metadata read, and the reader rejects the file.
UnusableRecheck ==
  /\ task.engine = "FileProcessor" /\ task.pc \in {"read", "done"}
  /\ task.db_info # NoRow /\ task.db_info.mtime # get_mtime(task.path)
  /\ ~disk[task.path]

\* C33: when the entry exists, its mtime has changed and the metadata read
\* rejects the file, the reconciliation ends with an error it reports and
\* ends nothing else: the row and the last checks stay as they were, no
\* token is taken and no lookup sent, and the caller can reconcile the next
\* path; under scan_dirs the file is dropped before the store is touched
\* and the stream goes on to the next file.
C33_UnusableFileFailsSoftly ==
  /\ [](UnusableRecheck =>
          /\ task.pc = "done" => task.result = "Err"
          /\ task.wrote = {} /\ task.acquired = 0 /\ task.lookups = 0
          /\ task.info = NoRow /\ TaskRows = {task.db_info}
          /\ (task.pc = "done" /\ calls < MaxCalls)
               => ENABLED FileProcessorCall("p2"))
  /\ [][UnusableRecheck =>
          library' = library /\ last_checks' = last_checks]_vars
  /\ [][(/\ scan.state = "running" /\ scan.stage = "pull"
         /\ scan.pos <= Len(Files) /\ ~disk[Files[scan.pos]]
         /\ scan' # scan) =>
          /\ scan'.state = "running" /\ scan'.pos = scan.pos + 1
          /\ scan'.stage = "pull"
          /\ library' = library /\ last_checks' = last_checks
          /\ index' = index /\ tokens' = tokens /\ task' = task]_vars

\* C33, witness: the reconciliation of the entry of p1, stored with an older
\* mtime and a last check, has ended with the error of the rejected read.
C33_Witness ==
  /\ UnusableRecheck /\ task.pc = "done" /\ task.result = "Err"
  /\ task.db_info.mtime = StaleMtime
  /\ get_acoustid_last_check(last_checks, task.db_info.id).some

\* C35: the join of the last-check write with the lookup and stamp gives one
\* store state whatever the order of its steps: when it resolves Ok the
\* entry's last check is the instant taken before the join and its mbid is
\* the one the lookup chose, or the one it had if the lookup chose none; the
\* last-check write leaves library alone, and the stamp leaves the last
\* checks alone and changes the mbid of its own row only.
C35_JoinOrderDoesNotMatter ==
  /\ []((task.pc = "done" /\ task.result = "Ok" /\ task.decided = "stale")
          => /\ get_acoustid_last_check(last_checks, task.db_info.id)
                  = SomeT(task.now)
             /\ \A r \in TaskRows :
                  r.mbid = IF "update_file_uuid" \in task.wrote
                             THEN task.mbid ELSE task.db_info.mbid)
  /\ [][("last_check" \notin task.wrote /\ "last_check" \in task'.wrote)
          => library' = library]_vars
  /\ [][("update_file_uuid" \notin task.wrote
          /\ "update_file_uuid" \in task'.wrote)
          => /\ last_checks' = last_checks
             /\ \A r \in library : r.id # task.db_info.id => r \in library'
             /\ \A r \in library' :
                  \E q \in library : r = [q EXCEPT !.mbid = r.mbid]]_vars

\* C35, witness: both sides of the join have written and it has resolved
\* Ok: the entry carries the lookup's mbid and the last check of this
\* reconciliation, which replaced an older one.
C35_Witness ==
  /\ task.pc = "done" /\ task.result = "Ok" /\ task.decided = "stale"
  /\ task.wrote = {"last_check", "update_file_uuid"}
  /\ task.last_check.some /\ task.last_check.val < task.now
  /\ \A r \in TaskRows : r.mbid = task.mbid /\ r.mbid # None

\* C36: once a reconciliation that stamped an mbid on its entry has ended,
\* with Ok or with an error, the entry has a row in acoustid_last_checks.
C36_StampedEntryHasLastCheck ==
  (task.pc = "done" /\ "update_file_uuid" \in task.wrote) =>
    \A r \in TaskRows :
      r.mbid # None => LastChecksOf(last_checks, r.id) # {}

\* C37: the step in which update_file succeeds changes the descriptive
\* fields of the reconciled entry to those read from the file and nothing
\* else: the entry keeps its id, path, mbid and mtime, every other entry
\* is as it was, and so is every last check.
C37_UpdateChangesDescriptiveFieldsOnly ==
  [][("update_file" \notin task.wrote /\ "update_file" \in task'.wrote) =>
       /\ last_checks' = last_checks
       /\ Cardinality(library') = Cardinality(library)
       /\ \A r \in library : r.id # task.db_info.id => r \in library'
       /\ \A r \in library' :
            /\ \E q \in library :
                 r = Row(q.id, q.path, Meta(r), q.mbid, q.mtime)
            /\ r.id = task.db_info.id => Meta(r) = Meta(task.info)]_vars

\* C37, witness: update_file has rewritten the tags of the entry of p1,
\* which carries an mbid, an older mtime and a last check.
C37_Witness ==
  /\ "update_file" \in task.wrote /\ task.path = "p1"
  /\ \A r \in TaskRows :
       /\ Meta(r) = FileMeta /\ r.mbid = "m1" /\ r.mtime = StaleMtime
       /\ LastChecksOf(last_checks, r.id) # {}

\* C38: a reconciliation of an entry that carries an mbid, whose stored
\* mtime is the file's and whose stored tags are the file's, does nothing:
\* FileProcessor reads no metadata, and neither engine writes to the store,
\* reads the last check, decides on a re-check, takes a token or sends a
\* lookup; when it resolves Ok it returns the stored entry.
C38_IdentifiedUnchangedEntryIsNoOp ==
  (/\ task.pc # "idle" /\ task.pre /\ task.pre_mbid # None
   /\ \A r \in TaskRows :
        r.mtime = get_mtime(task.path) /\ Meta(r) = FileMeta) =>
    /\ task.engine = "FileProcessor" => task.info = NoRow
    /\ task.wrote = {} /\ task.glc = "none" /\ task.decided = "none"
    /\ task.acquired = 0 /\ task.lookups = 0
    /\ (task.pc = "done" /\ task.result = "Ok") =>
         task.ret \in TaskRows /\ task.ret.mbid = task.pre_mbid

\* C34: in insert_path_entry a token is taken, a lookup is sent and a last
\* check is written only once insert_file has succeeded and the row is
\* stored; a branch that ended without a successful insert took no token,
\* sent no lookup, wrote nothing and left no row and no last check.
C34_IdentificationFollowsInsert ==
  /\ []((\/ task.pc \in {"join", "dt_ins_join"}
         \/ task.acquired > 0 \/ task.lookups > 0
         \/ task.wrote \ {"insert_file"} # {})
          => /\ "insert_file" \in task.wrote
             /\ TaskRows # {}
             /\ task.db_info # NoRow =>
                  TaskRows = {[task.db_info EXCEPT !.mbid = r.mbid]
                                : r \in TaskRows})
  /\ []((task.pc = "done" /\ "insert_file" \notin task.wrote)
          => /\ task.acquired = 0 /\ task.lookups = 0 /\ task.wrote = {}
             /\ TaskRows = {} /\ tokens = Capacity /\ resp = NoReply
             /\ \A i \in 1..Len(last_checks) :
                  last_checks[i].library_id \in {r.id : r \in library})
  /\ [][(tokens' < tokens \/ resp' # resp \/ last_checks' # last_checks)
          => TaskRows # {}]_vars

\* C34, witness: the file was read, insert_file failed, and the branch has
\* ended having taken no token and written no last check.
C34_Witness ==
  /\ mode = "insert" /\ task.pc = "done" /\ task.result \in {"Err", "Panic"}
  /\ task.info # NoRow /\ "insert_file" \notin task.wrote
  /\ task.acquired = 0 /\ TaskRows = {}

=============================================================================
